---- MODULE Spec2Model ----
(***************************************************************************)
(* Model of the RCA orchestration core of dops-rca:                        *)
(*   - ResilientLLMClient (resilient-llm-client.ts): circuit breaker on    *)
(*     top of a Bottleneck reservoir limiter;                              *)
(*   - the rca:analyze handler (gitops-rca.ts): entity resolution, the     *)
(*     three deadline-bounded branches, the allSettled join, generateRCA,  *)
(*     the Git commit and the outputs.                                     *)
(*   - K8sNamespacePolicy (k8s-namespace-policy.ts): the decision of one   *)
(*     permission request from the user's groups and the entity's          *)
(*     namespace;                                                          *)
(*   - ZitadelGroupSyncResolver (zitadelGroupSync.ts): the Backstage token *)
(*     issued for the claims of a ZITADEL id token, and the policy's       *)
(*     decision for the user who signed in with it;                        *)
(*   - VictoriaLogsClient.fetchLogAnomalies (zitadelGroupSync.ts): the     *)
(*     result of one call for a time range and an outcome of the query.    *)
(* Time is a millisecond clock `now`; timers are urgent: the clock does    *)
(* not pass a pending deadline before the timer callback has run.          *)
(***************************************************************************)
EXTENDS Integers, Sequences, FiniteSets, TLC

(* ---------------- program constants ---------------- *)
maxFailures == 3
resetTimeout == 60000
reservoirInitial == 10
reservoirRefreshAmount == 10
reservoirRefreshInterval == 60 * 1000
maxConcurrent == 2

(* ---------------- bounds of the model ---------------- *)
\* queries issued to the client in a client behaviour
MaxQueries == 11
\* clock step of a client behaviour, in ms
Tick == 30000
\* last clock value of a client behaviour, in ms
MaxTime == 90000
\* queries other callers issue to the client during a run of the handler
MaxRunQueries == 3
\* clock step of a run of the handler, in ms
RunStep == 5000
\* last clock value of a run of the handler, in ms
MaxRunTime == 20000
\* longest list of Kubernetes events handed to generateRCA
MaxEvents == 2
\* longest list of k8sgpt problems handed to generateRCA
MaxProblems == 2
\* longest generated namespace and team name, in symbols
MaxNamespaceLen == 3
\* longest list of log entries the log query returns
MaxLogEntries == 2
\* longest list of role keys in a ZITADEL token
MaxRoles == 2
\* queries issued to the client in a behaviour that keeps the ledger
MaxLedgerQueries == 5
\* longest of the event lists that exceed the evidence sample
MaxLongEvents == 17

VARIABLES
  \* ResilientLLMClient
  circuitBreakerFailures,   \* this.circuitBreakerFailures
  circuitBreakerOpen,       \* this.circuitBreakerOpen
  resetTimers,              \* pending setTimeout callbacks of handleFailure: their deadlines, in order
  reservoir,                \* Bottleneck reservoir (tokens left in the window)
  lastReservoirRefresh,     \* time of the last reservoir refresh
  queued,                   \* limiter.counts().queued
  running,                  \* limiter.counts().running: provider calls in flight
  providerCalls,            \* number of baseClient.query invocations
  issued,                   \* number of query() calls made
  rejected,                 \* number of query() calls thrown out by the breaker gate
  openedAt,                 \* time of the last Closed -> Open transition, -1 if none
  windowStarts,             \* provider calls started since the last reservoir refresh
  ledger,                   \* who called and what each caller received, NoLedger if not kept
  \* one run of the rca:analyze handler
  includeLogs,              \* ctx.input.includeLogs
  k8sgptClient,             \* options.k8sgptClient is configured
  pc,                       \* position of the handler
  launchedAt,               \* time of the fan-out, -1 before it
  remote,                   \* per source: state of the provider's promise
  timer,                    \* per source: state of the setTimeout of timeout()
  result,                   \* per source: the entry of Promise.allSettled
  calls,                    \* per source: number of provider invocations
  warnings,                 \* ctx.logger.warn records
  generateCalls,            \* number of generateRCA calls
  rcaResult,                \* value returned by generateRCA
  gitCommit,                \* value returned by commitRCAToGit
  outputs,                  \* ctx.output(key, value) calls: key -> value
  audit,                    \* ctx.logger.audit records, in order
  error,                    \* message of the error thrown to the caller
  \* one evaluation of K8sNamespacePolicy.handle
  request,                  \* the PolicyQuery with the answers of identity and catalog
  policyConfig,             \* this.config: sharedNamespaces, enableAuditLogging, strictMode
  decision,                 \* the PolicyDecision returned, "none" before
  policyLog,                \* logger.info records written by auditLog, in order
  \* one call of ZitadelGroupSyncResolver.resolve
  claims,                   \* the claims of the ZITADEL id token
  backstageToken,           \* the claims handed to ctx.issueToken, NoToken before
  resolveError,             \* message of the error resolve threw, "" if none
  \* one call of VictoriaLogsClient.fetchLogAnomalies
  logCall,                  \* the timeRange argument and the outcome of the HTTP query
  logReturn,                \* what the call returned or threw, NoRequest before
  now                       \* clock, ms

clientVars == <<circuitBreakerFailures, circuitBreakerOpen, resetTimers, reservoir,
                lastReservoirRefresh, queued, running, providerCalls, issued,
                rejected, openedAt, windowStarts, ledger>>

runVars == <<includeLogs, k8sgptClient, pc, launchedAt, remote, timer, result, calls,
             warnings, generateCalls, rcaResult, gitCommit, outputs, audit, error>>

policyVars == <<request, policyConfig, decision, policyLog>>

syncVars == <<claims, backstageToken, resolveError>>

logsVars == <<logCall, logReturn>>

vars == <<clientVars, runVars, policyVars, syncVars, logsVars, now>>

\* No policy evaluation takes place.
NoRequest == [tag |-> "none"]
PolicyIdle ==
  /\ request = NoRequest
  /\ policyConfig = NoRequest
  /\ decision = "none"
  /\ policyLog = << >>

\* No sign-in takes place.
NoToken == [tag |-> "none"]
SyncIdle ==
  /\ claims = NoRequest
  /\ backstageToken = NoToken
  /\ resolveError = ""

\* No log analysis takes place.
LogsIdle == logCall = NoRequest /\ logReturn = NoRequest

(* ---------------- ResilientLLMClient ---------------- *)

\* The state of a new client, its ledger apart.
ClientStart ==
  /\ circuitBreakerFailures = 0
  /\ circuitBreakerOpen = FALSE
  /\ resetTimers = <<>>
  /\ reservoir = reservoirInitial
  /\ lastReservoirRefresh = 0
  /\ queued = 0
  /\ running = 0
  /\ providerCalls = 0
  /\ issued = 0
  /\ rejected = 0
  /\ openedAt = -1
  /\ windowStarts = 0

\* The ledger is the observer's record of one client: the callers of the queued
\* jobs in queue order, the callers of the jobs in flight, a log of the calls of
\* query() that settled and of the resets, and for the last call that settled
\* what the provider produced and what the caller received. It is kept in the
\* behaviours that start with an empty ledger and left out (NoLedger) in the
\* others.
NoLedger == [tag |-> "none"]

ClientInit == ClientStart /\ ledger = NoLedger

Callers == {"A", "B"}
\* What baseClient.query resolves with and the errors it rejects with.
LLMPayloads == {"analysis"}
LLMErrors == {"provider timeout", "provider unavailable"}
CircuitOpenError == "Circuit breaker open - LLM service unavailable"

\* query() of caller c passed the gate: limiter.schedule queues its job.
Admit(c) ==
  IF ledger = NoLedger THEN ledger
  ELSE [ledger EXCEPT !.waiting = Append(@, c)]
\* query() of caller c threw at the gate.
Reject(c) ==
  IF ledger = NoLedger THEN ledger
  ELSE [ledger EXCEPT !.log = Append(@, [e |-> "rejected", caller |-> c]),
                      !.last = [provider |-> "", got |-> CircuitOpenError]]
\* The job at the head of the queue starts.
Started ==
  IF ledger = NoLedger THEN ledger
  ELSE [ledger EXCEPT !.waiting = Tail(@),
                      !.inflight = Append(@, Head(ledger.waiting))]
\* The i-th job in flight settles: e is "ok" or "failed", provider is what
\* baseClient.query produced and got is what the promise of query() settles with.
Settled(i, e, provider, got) ==
  IF ledger = NoLedger THEN ledger
  ELSE [ledger EXCEPT
          !.inflight = SubSeq(@, 1, i - 1) \o SubSeq(@, i + 1, Len(@)),
          !.log = Append(@, [e |-> e, caller |-> ledger.inflight[i]]),
          !.last = [provider |-> provider, got |-> got]]
\* The setTimeout callback ran.
ResetLogged ==
  IF ledger = NoLedger THEN ledger
  ELSE [ledger EXCEPT !.log = Append(@, [e |-> "reset", caller |-> "timer"])]

\* Bottleneck: a job may start when a token is left and a concurrency slot is free.
\* (faulty variant: the concurrency cap is not checked)
CanStartNoCap == reservoir > 0
\* (faulty variant: the reservoir is not checked)
CanStartNoToken == running < maxConcurrent
\* (as configured)
CanStart == reservoir > 0 /\ running < maxConcurrent

\* query(): the breaker gate, then limiter.schedule(task).
\* (faulty variant: the gate is missing)
QueryNoGate(maxq) ==
  /\ issued < maxq
  /\ issued' = issued + 1
  /\ queued' = queued + 1
  /\ \E c \in Callers : ledger' = Admit(c)
  /\ UNCHANGED <<circuitBreakerFailures, circuitBreakerOpen, resetTimers, reservoir,
                 lastReservoirRefresh, running, providerCalls, rejected, openedAt,
                 windowStarts, now, runVars, policyVars, syncVars, logsVars>>
\* (faulty variant: the gate rejects only callers whose own calls have failed)
QueryGatePerCaller(maxq) ==
  /\ issued < maxq
  /\ issued' = issued + 1
  /\ \E c \in Callers :
       IF /\ circuitBreakerOpen
          /\ \E i \in 1..Len(ledger.log) :
               ledger.log[i].e = "failed" /\ ledger.log[i].caller = c
         THEN /\ rejected' = rejected + 1
              /\ ledger' = Reject(c)
              /\ UNCHANGED queued
         ELSE /\ queued' = queued + 1
              /\ ledger' = Admit(c)
              /\ UNCHANGED rejected
  /\ UNCHANGED <<circuitBreakerFailures, circuitBreakerOpen, resetTimers, reservoir,
                 lastReservoirRefresh, running, providerCalls, openedAt, windowStarts,
                 now, runVars, policyVars, syncVars, logsVars>>
\* (as written)
Query(maxq) ==
  /\ issued < maxq
  /\ issued' = issued + 1
  /\ \E c \in Callers :
       IF circuitBreakerOpen
         THEN /\ rejected' = rejected + 1
              /\ ledger' = Reject(c)
              /\ UNCHANGED queued
         ELSE /\ queued' = queued + 1
              /\ ledger' = Admit(c)
              /\ UNCHANGED rejected
  /\ UNCHANGED <<circuitBreakerFailures, circuitBreakerOpen, resetTimers, reservoir,
                 lastReservoirRefresh, running, providerCalls, openedAt, windowStarts,
                 now, runVars, policyVars, syncVars, logsVars>>

\* The limiter starts the oldest queued job: the task runs and calls baseClient.query.
StartJob ==
  /\ queued > 0
  /\ CanStart
  /\ queued' = queued - 1
  /\ running' = running + 1
  /\ reservoir' = reservoir - 1
  /\ providerCalls' = providerCalls + 1
  /\ windowStarts' = windowStarts + 1
  /\ ledger' = Started
  /\ UNCHANGED <<circuitBreakerFailures, circuitBreakerOpen, resetTimers,
                 lastReservoirRefresh, issued, rejected, openedAt, now, runVars,
                 policyVars, syncVars, logsVars>>

\* baseClient.query resolved: the failure count is reset, the task returns the
\* result and the job leaves the limiter.
\* (faulty variant: the failure count is left as it is)
CallSucceedsKeepsCount ==
  /\ running > 0
  /\ running' = running - 1
  /\ \E i \in 1..running, p \in LLMPayloads : ledger' = Settled(i, "ok", p, p)
  /\ UNCHANGED <<circuitBreakerFailures, circuitBreakerOpen, resetTimers, reservoir,
                 lastReservoirRefresh, queued, providerCalls, issued, rejected,
                 openedAt, windowStarts, now, runVars, policyVars, syncVars, logsVars>>
\* (as written)
CallSucceeds ==
  /\ running > 0
  /\ running' = running - 1
  /\ circuitBreakerFailures' = 0
  /\ \E i \in 1..running, p \in LLMPayloads : ledger' = Settled(i, "ok", p, p)
  /\ UNCHANGED <<circuitBreakerOpen, resetTimers, reservoir, lastReservoirRefresh,
                 queued, providerCalls, issued, rejected, openedAt, windowStarts,
                 now, runVars, policyVars, syncVars, logsVars>>

\* baseClient.query rejected: handleFailure(error), then the error is rethrown.
\* (faulty variant: the breaker opens only above the threshold)
CallFailsOpensLate ==
  /\ running > 0
  /\ running' = running - 1
  /\ circuitBreakerFailures' = circuitBreakerFailures + 1
  /\ IF circuitBreakerFailures + 1 > maxFailures
       THEN /\ circuitBreakerOpen' = TRUE
            /\ resetTimers' = Append(resetTimers, now + resetTimeout)
            /\ openedAt' = IF circuitBreakerOpen THEN openedAt ELSE now
       ELSE UNCHANGED <<circuitBreakerOpen, resetTimers, openedAt>>
  /\ \E i \in 1..running, err \in LLMErrors : ledger' = Settled(i, "failed", err, err)
  /\ UNCHANGED <<reservoir, lastReservoirRefresh, queued, providerCalls, issued,
                 rejected, windowStarts, now, runVars, policyVars, syncVars, logsVars>>
\* (faulty variant: the caller is handed an error of the client's own)
CallFailsWrapsError ==
  /\ running > 0
  /\ running' = running - 1
  /\ circuitBreakerFailures' = circuitBreakerFailures + 1
  /\ IF circuitBreakerFailures + 1 >= maxFailures
       THEN /\ circuitBreakerOpen' = TRUE
            /\ resetTimers' = Append(resetTimers, now + resetTimeout)
            /\ openedAt' = IF circuitBreakerOpen THEN openedAt ELSE now
       ELSE UNCHANGED <<circuitBreakerOpen, resetTimers, openedAt>>
  /\ \E i \in 1..running, err \in LLMErrors :
       ledger' = Settled(i, "failed", err, CircuitOpenError)
  /\ UNCHANGED <<reservoir, lastReservoirRefresh, queued, providerCalls, issued,
                 rejected, windowStarts, now, runVars, policyVars, syncVars, logsVars>>
\* (as written)
CallFails ==
  /\ running > 0
  /\ running' = running - 1
  /\ circuitBreakerFailures' = circuitBreakerFailures + 1
  /\ IF circuitBreakerFailures + 1 >= maxFailures
       THEN /\ circuitBreakerOpen' = TRUE
            /\ resetTimers' = Append(resetTimers, now + resetTimeout)
            /\ openedAt' = IF circuitBreakerOpen THEN openedAt ELSE now
       ELSE UNCHANGED <<circuitBreakerOpen, resetTimers, openedAt>>
  /\ \E i \in 1..running, err \in LLMErrors : ledger' = Settled(i, "failed", err, err)
  /\ UNCHANGED <<reservoir, lastReservoirRefresh, queued, providerCalls, issued,
                 rejected, windowStarts, now, runVars, policyVars, syncVars, logsVars>>

\* The oldest pending reset timer has reached its deadline.
ResetTimerDue == resetTimers # <<>> /\ Head(resetTimers) <= now

\* The setTimeout callback of handleFailure.
\* (faulty variant: the callback clears the count and leaves the breaker Open)
ResetTimerFiresStaysOpen ==
  /\ ResetTimerDue
  /\ resetTimers' = Tail(resetTimers)
  /\ circuitBreakerFailures' = 0
  /\ ledger' = ResetLogged
  /\ UNCHANGED <<circuitBreakerOpen, reservoir, lastReservoirRefresh, queued, running,
                 providerCalls, issued, rejected, openedAt, windowStarts, now,
                 runVars, policyVars, syncVars, logsVars>>
\* (as written)
ResetTimerFires ==
  /\ ResetTimerDue
  /\ resetTimers' = Tail(resetTimers)
  /\ circuitBreakerOpen' = FALSE
  /\ circuitBreakerFailures' = 0
  /\ ledger' = ResetLogged
  /\ UNCHANGED <<reservoir, lastReservoirRefresh, queued, running, providerCalls,
                 issued, rejected, openedAt, windowStarts, now, runVars, policyVars,
                 syncVars, logsVars>>

\* Bottleneck restores the reservoir at the end of each refresh interval.
\* (faulty variant: the interval passes without restoring the tokens)
ReservoirRefreshKeeps ==
  /\ now >= lastReservoirRefresh + reservoirRefreshInterval
  /\ reservoir' = reservoir
  /\ lastReservoirRefresh' = now
  /\ windowStarts' = 0
  /\ UNCHANGED <<circuitBreakerFailures, circuitBreakerOpen, resetTimers, queued,
                 running, providerCalls, issued, rejected, openedAt, ledger, now,
                 runVars, policyVars, syncVars, logsVars>>
\* (as configured)
ReservoirRefresh ==
  /\ now >= lastReservoirRefresh + reservoirRefreshInterval
  /\ reservoir' = reservoirRefreshAmount
  /\ lastReservoirRefresh' = now
  /\ windowStarts' = 0
  /\ UNCHANGED <<circuitBreakerFailures, circuitBreakerOpen, resetTimers, queued,
                 running, providerCalls, issued, rejected, openedAt, ledger, now,
                 runVars, policyVars, syncVars, logsVars>>

\* No client timer is due and the limiter has nothing it could start.
ClientQuiet ==
  /\ ~ResetTimerDue
  /\ now < lastReservoirRefresh + reservoirRefreshInterval
  /\ ~(queued > 0 /\ CanStart)

ClientTick ==
  /\ ClientQuiet
  /\ now + Tick <= MaxTime
  /\ now' = now + Tick
  /\ UNCHANGED <<clientVars, runVars, policyVars, syncVars, logsVars>>


(* ---------------- the rca:analyze handler: data ---------------- *)

Sources == {"k8s", "logs", "k8sgpt"}

\* JavaScript null / undefined
NULL == [tag |-> "null"]

Min(a, b) == IF a <= b THEN a ELSE b

Range(seq) == {seq[i] : i \in 1..Len(seq)}

\* Values fetchK8sContext may resolve with.
K8sContexts ==
  { [tag |-> "k8s", k8sEvents |-> <<>>],
    [tag |-> "k8s", k8sEvents |-> <<[type |-> "Normal", reason |-> "Started"]>>],
    [tag |-> "k8s", k8sEvents |-> <<[type |-> "Warning", reason |-> "BackOff"],
                                    [type |-> "Normal", reason |-> "Failed"]>>] }

\* Values victoriaLogs.fetchLogAnomalies may resolve with.
LogAnomalies ==
  { [tag |-> "logs", entries |-> <<>>, errorCount |-> 0, warningCount |-> 0,
     patterns |-> <<>>],
    [tag |-> "logs", entries |-> <<"e1", "e2">>, errorCount |-> 2, warningCount |-> 0,
     patterns |-> <<"timeout (2x)">>] }

\* Values k8sgptClient.analyze may resolve with.
K8sgptAnalyses ==
  { [tag |-> "k8sgpt", problems |-> <<>>],
    [tag |-> "k8sgpt", problems |-> <<[description |-> "CrashLoopBackOff"]>>] }

Payloads(k) ==
  CASE k = "k8s" -> K8sContexts
    [] k = "logs" -> LogAnomalies
    [] k = "k8sgpt" -> K8sgptAnalyses

\* Errors a provider may reject with.
ProviderErrors(k) ==
  CASE k = "k8s" -> {"Kubernetes API error"}
    [] k = "logs" -> {"VictoriaLogs error"}
    [] k = "k8sgpt" -> {"k8sgpt error", "Circuit breaker open - LLM service unavailable"}

\* The deadline and the message handed to timeout() for each branch.
Deadline(k) ==
  CASE k = "k8s" -> 10000
    [] k = "logs" -> 15000
    [] k = "k8sgpt" -> 20000

TimeoutMessage(k) ==
  CASE k = "k8s" -> "Kubernetes API timeout"
    [] k = "logs" -> "VictoriaLogs timeout"
    [] k = "k8sgpt" -> "k8sgpt timeout"

NoError == ""
NoCommit == ""
NoResult == [tag |-> "none"]

Unsettled == [status |-> "pending", value |-> NULL, reason |-> ""]
Fulfilled(v) == [status |-> "fulfilled", value |-> v, reason |-> ""]
Rejected(msg) == [status |-> "rejected", value |-> NULL, reason |-> msg]

(* ---------------- generateRCA ---------------- *)

\* e.type === 'Warning' || e.reason === 'Failed'
IsCritical(e) == e.type = "Warning" \/ e.reason = "Failed"

\* patterns.includes(p)
Includes(patterns, p) == \E i \in 1..Len(patterns) : patterns[i] = p

\* k8sContext.k8sEvents.filter(...)
criticalEvents(k8sContext) == SelectSeq(k8sContext.k8sEvents, IsCritical)

\* The three evidence rules: k8sgptAnalysis?.problems?.length > 0,
\* logAnomalies?.errorCount > 0, criticalEvents.length > 0.
aiRule(k8sgptAnalysis) == k8sgptAnalysis # NULL /\ Len(k8sgptAnalysis.problems) > 0
logRule(logAnomalies) == logAnomalies # NULL /\ logAnomalies.errorCount > 0
k8sRule(k8sContext) == Len(criticalEvents(k8sContext)) > 0

\* The factors pushed by the three rules, in the order of the pushes.
\* (faulty variant: the Kubernetes rule is evaluated first)
factorsK8sFirst(k8sContext, logAnomalies, k8sgptAnalysis) ==
  LET f1 == IF aiRule(k8sgptAnalysis)
              THEN [i \in 1..Len(k8sgptAnalysis.problems) |->
                      k8sgptAnalysis.problems[i].description]
              ELSE <<>>
      f2 == IF logRule(logAnomalies)
              THEN <<"Found " \o ToString(logAnomalies.errorCount) \o " error logs">>
                     \o logAnomalies.patterns
              ELSE <<>>
      f3 == IF k8sRule(k8sContext)
              THEN <<ToString(Len(criticalEvents(k8sContext)))
                       \o " critical Kubernetes events">>
              ELSE <<>>
  IN f3 \o f1 \o f2
\* (as written)
factors(k8sContext, logAnomalies, k8sgptAnalysis) ==
  LET f1 == IF aiRule(k8sgptAnalysis)
              THEN [i \in 1..Len(k8sgptAnalysis.problems) |->
                      k8sgptAnalysis.problems[i].description]
              ELSE <<>>
      f2 == IF logRule(logAnomalies)
              THEN <<"Found " \o ToString(logAnomalies.errorCount) \o " error logs">>
                     \o logAnomalies.patterns
              ELSE <<>>
      f3 == IF k8sRule(k8sContext)
              THEN <<ToString(Len(criticalEvents(k8sContext)))
                       \o " critical Kubernetes events">>
              ELSE <<>>
  IN f1 \o f2 \o f3

\* let confidence = 0; confidence += 30 / 25 / 20; Math.min(confidence, 100)
\* (faulty variant: a weight for every problem, error log and event, not clamped)
confidencePerItem(k8sContext, logAnomalies, k8sgptAnalysis) ==
  LET c1 == IF aiRule(k8sgptAnalysis) THEN 30 * Len(k8sgptAnalysis.problems) ELSE 0
      c2 == IF logRule(logAnomalies) THEN c1 + 25 * logAnomalies.errorCount ELSE c1
      c3 == IF k8sRule(k8sContext) THEN c2 + 20 * Len(criticalEvents(k8sContext)) ELSE c2
  IN c3
\* (faulty variant: only the first rule that triggers adds its weight)
confidenceFirstMatch(k8sContext, logAnomalies, k8sgptAnalysis) ==
  LET c == IF aiRule(k8sgptAnalysis) THEN 30
           ELSE IF logRule(logAnomalies) THEN 25
           ELSE IF k8sRule(k8sContext) THEN 20 ELSE 0
  IN Min(c, 100)
\* (as written)
confidence(k8sContext, logAnomalies, k8sgptAnalysis) ==
  LET c1 == IF aiRule(k8sgptAnalysis) THEN 30 ELSE 0
      c2 == IF logRule(logAnomalies) THEN c1 + 25 ELSE c1
      c3 == IF k8sRule(k8sContext) THEN c2 + 20 ELSE c2
  IN Min(c3, 100)

\* The recommended actions pushed for the log patterns.
\* (faulty variant: the rules are an if / else-if chain)
actionsFirstMatch(logAnomalies) ==
  IF logAnomalies # NULL /\ Includes(logAnomalies.patterns, "OOMKilled")
    THEN <<"Increase memory limits for affected pods",
           "Review memory usage patterns and optimize application">>
    ELSE IF logAnomalies # NULL /\ Includes(logAnomalies.patterns, "timeout")
           THEN <<"Investigate network latency or slow dependencies",
                  "Review timeout configurations">>
           ELSE <<>>
\* (as written)
actions(logAnomalies) ==
  LET a1 == IF logAnomalies # NULL /\ Includes(logAnomalies.patterns, "OOMKilled")
              THEN <<"Increase memory limits for affected pods",
                     "Review memory usage patterns and optimize application">>
              ELSE <<>>
      a2 == IF logAnomalies # NULL /\ Includes(logAnomalies.patterns, "timeout")
              THEN <<"Investigate network latency or slow dependencies",
                     "Review timeout configurations">>
              ELSE <<>>
  IN a1 \o a2

\* The summary line built from the factors and the actions.
\* (faulty variant: the count line is built also when there is no factor)
summaryAlwaysCounts(fs, as) ==
  "Analysis identified " \o ToString(Len(fs)) \o " contributing factors. "
     \o ToString(Len(as)) \o " recommended actions available."
\* (as written)
summary(fs, as) ==
  IF Len(fs) > 0
    THEN "Analysis identified " \o ToString(Len(fs)) \o " contributing factors. "
           \o ToString(Len(as)) \o " recommended actions available."
    ELSE "No significant issues detected. System appears healthy."

\* (faulty variant: the evidence holds every critical event and every log entry)
generateRCAFullEvidence(k8sContext, logAnomalies, k8sgptAnalysis) ==
  [tag |-> "rca",
   summary |-> summary(factors(k8sContext, logAnomalies, k8sgptAnalysis),
                       actions(logAnomalies)),
   confidence |-> confidence(k8sContext, logAnomalies, k8sgptAnalysis),
   factors |-> factors(k8sContext, logAnomalies, k8sgptAnalysis),
   actions |-> actions(logAnomalies),
   evidence |-> [k8sEvents |-> criticalEvents(k8sContext),
                 logSamples |-> IF logAnomalies # NULL THEN logAnomalies.entries ELSE <<>>,
                 k8sgptDetails |-> k8sgptAnalysis]]
\* (as written)
generateRCA(k8sContext, logAnomalies, k8sgptAnalysis) ==
  [tag |-> "rca",
   summary |-> summary(factors(k8sContext, logAnomalies, k8sgptAnalysis),
                       actions(logAnomalies)),
   confidence |-> confidence(k8sContext, logAnomalies, k8sgptAnalysis),
   factors |-> factors(k8sContext, logAnomalies, k8sgptAnalysis),
   actions |-> actions(logAnomalies),
   evidence |-> [k8sEvents |-> SubSeq(criticalEvents(k8sContext), 1,
                                      Min(10, Len(criticalEvents(k8sContext)))),
                 logSamples |-> IF logAnomalies # NULL
                                  THEN SubSeq(logAnomalies.entries, 1,
                                              Min(5, Len(logAnomalies.entries)))
                                  ELSE <<>>,
                 k8sgptDetails |-> k8sgptAnalysis]]

(* ---------------- the rca:analyze handler: operations ---------------- *)

RunInit(logsWanted, clientGiven) ==
  /\ includeLogs = logsWanted
  /\ k8sgptClient = clientGiven
  /\ pc = "fetchEntity"
  /\ launchedAt = -1
  /\ remote = [k \in Sources |-> "none"]
  /\ timer = [k \in Sources |-> "none"]
  /\ result = [k \in Sources |-> Unsettled]
  /\ calls = [k \in Sources |-> 0]
  /\ warnings = {}
  /\ generateCalls = 0
  /\ rcaResult = NoResult
  /\ gitCommit = NoCommit
  /\ outputs = << >>
  /\ audit = << >>
  /\ error = NoError

\* The fan-out calls the provider of source k: always for Kubernetes, for the logs
\* when includeLogs, for k8sgpt when a client is configured.
\* (faulty variant: the switches are ignored)
LaunchedAlways(k) == TRUE
\* (as written)
Launched(k) ==
  \/ k = "k8s"
  \/ k = "logs" /\ includeLogs
  \/ k = "k8sgpt" /\ k8sgptClient

\* The catch block of the handler: audit record RCA_FAILED, then the error is rethrown.
\* (faulty variant: the error is not rethrown)
FailSwallowed(message) ==
  /\ audit' = Append(audit, [event |-> "RCA_FAILED", error |-> message])
  /\ error' = error
  /\ pc' = "failed"
\* (as written)
Fail(message) ==
  /\ audit' = Append(audit, [event |-> "RCA_FAILED", error |-> message])
  /\ error' = "RCA analysis failed: " \o message
  /\ pc' = "failed"

\* Promise.race of timeout(): only the first of provider and timer settles the branch.
\* (faulty variant: a late settlement overwrites the entry)
SettlesRaceAlways(k) == TRUE
\* (as written)
SettlesRace(k) == result[k].status = "pending"

\* The branch's race is fulfilled with v.
RaceFulfils(k, v) ==
  /\ result' = [result EXCEPT ![k] = Fulfilled(v)]
  /\ UNCHANGED warnings

\* The branch's race is rejected with msg; the k8sgpt branch has a .catch that logs
\* a warning and yields null.
\* (faulty variant: the rejection of one branch also rejects the branches still pending)
RaceRejectsCancelsOthers(k, msg) ==
  /\ result' = [j \in Sources |->
                  IF j = k
                    THEN IF k = "k8sgpt" THEN Fulfilled(NULL) ELSE Rejected(msg)
                    ELSE IF result[j].status = "pending"
                      THEN Rejected("cancelled")
                      ELSE result[j]]
  /\ warnings' = IF k = "k8sgpt"
                   THEN warnings \cup
                          {[message |-> "k8sgpt analysis failed, continuing without it",
                            error |-> msg]}
                   ELSE warnings
\* (as written)
RaceRejects(k, msg) ==
  IF k = "k8sgpt"
    THEN /\ warnings' = warnings \cup
                {[message |-> "k8sgpt analysis failed, continuing without it",
                  error |-> msg]}
         /\ result' = [result EXCEPT ![k] = Fulfilled(NULL)]
    ELSE /\ result' = [result EXCEPT ![k] = Rejected(msg)]
         /\ UNCHANGED warnings

\* await fetchEntity resolved: namespace and cluster are extracted and the three
\* branches are built, which calls the providers and arms the timers.
EntityResolves ==
  /\ pc = "fetchEntity"
  /\ pc' = "join"
  /\ launchedAt' = now
  /\ calls' = [k \in Sources |-> IF Launched(k) THEN calls[k] + 1 ELSE calls[k]]
  /\ remote' = [k \in Sources |-> IF Launched(k) THEN "pending" ELSE "none"]
  /\ timer' = [k \in Sources |-> IF Launched(k) THEN "armed" ELSE "none"]
  /\ result' = [k \in Sources |-> IF Launched(k) THEN Unsettled ELSE Fulfilled(NULL)]
  /\ UNCHANGED <<includeLogs, k8sgptClient, warnings, generateCalls, rcaResult,
                 gitCommit, outputs, audit, error, now, clientVars, policyVars, syncVars, logsVars>>

\* (faulty variant: the providers are called before the entity is awaited)
EntityRejectsAfterLaunch ==
  /\ pc = "fetchEntity"
  /\ Fail("Entity not found")
  /\ calls' = [k \in Sources |-> IF Launched(k) THEN calls[k] + 1 ELSE calls[k]]
  /\ remote' = [k \in Sources |-> IF Launched(k) THEN "pending" ELSE "none"]
  /\ UNCHANGED <<includeLogs, k8sgptClient, launchedAt, timer, result,
                 warnings, generateCalls, rcaResult, gitCommit, outputs, now, clientVars, policyVars, syncVars, logsVars>>
\* await fetchEntity rejected: the catch block runs, no branch is built.
EntityRejects ==
  /\ pc = "fetchEntity"
  /\ Fail("Entity not found")
  /\ UNCHANGED <<includeLogs, k8sgptClient, launchedAt, remote, timer, result, calls,
                 warnings, generateCalls, rcaResult, gitCommit, outputs, now, clientVars, policyVars, syncVars, logsVars>>

\* The provider of source k resolves with v.
ProviderResolves(k, v) ==
  /\ remote[k] = "pending"
  /\ remote' = [remote EXCEPT ![k] = "resolved"]
  /\ IF SettlesRace(k) THEN RaceFulfils(k, v) ELSE UNCHANGED <<result, warnings>>
  /\ UNCHANGED <<includeLogs, k8sgptClient, pc, launchedAt, timer, calls, generateCalls,
                 rcaResult, gitCommit, outputs, audit, error, now, clientVars, policyVars, syncVars, logsVars>>

\* The provider of source k rejects with msg.
ProviderRejects(k, msg) ==
  /\ remote[k] = "pending"
  /\ remote' = [remote EXCEPT ![k] = "rejected"]
  /\ IF SettlesRace(k) THEN RaceRejects(k, msg) ELSE UNCHANGED <<result, warnings>>
  /\ UNCHANGED <<includeLogs, k8sgptClient, pc, launchedAt, timer, calls, generateCalls,
                 rcaResult, gitCommit, outputs, audit, error, now, clientVars, policyVars, syncVars, logsVars>>

\* The timer of timeout() for source k has reached its deadline.
TimerDue(k) == timer[k] = "armed" /\ now >= launchedAt + Deadline(k)

\* The setTimeout callback of timeout() for source k.
\* (faulty variant: the callback does not reject the race)
TimerFiresNoReject(k) ==
  /\ TimerDue(k)
  /\ timer' = [timer EXCEPT ![k] = "fired"]
  /\ UNCHANGED <<result, warnings>>
  /\ UNCHANGED <<includeLogs, k8sgptClient, pc, launchedAt, remote, calls, generateCalls,
                 rcaResult, gitCommit, outputs, audit, error, now, clientVars, policyVars, syncVars, logsVars>>
\* (as written)
TimerFires(k) ==
  /\ TimerDue(k)
  /\ timer' = [timer EXCEPT ![k] = "fired"]
  /\ IF SettlesRace(k)
       THEN RaceRejects(k, TimeoutMessage(k))
       ELSE UNCHANGED <<result, warnings>>
  /\ UNCHANGED <<includeLogs, k8sgptClient, pc, launchedAt, remote, calls, generateCalls,
                 rcaResult, gitCommit, outputs, audit, error, now, clientVars, policyVars, syncVars, logsVars>>

\* Promise.allSettled: the await ends when every one of the three entries is settled.
\* (faulty variant: a Kubernetes failure ends the join at once)
JoinReadyFailFast ==
  \/ \A k \in Sources : result[k].status # "pending"
  \/ result["k8s"].status = "rejected"
\* (as written)
JoinReady == \A k \in Sources : result[k].status # "pending"

\* logResult.status === 'fulfilled' ? logResult.value : null
ValueOrNull(r) == IF r.status = "fulfilled" THEN r.value ELSE NULL

\* After the join: the mandatory-source check, then generateRCA.
Join ==
  /\ pc = "join"
  /\ JoinReady
  /\ IF result["k8s"].status = "rejected"
       THEN /\ Fail("Failed to fetch Kubernetes context: Error: " \o result["k8s"].reason)
            /\ UNCHANGED <<generateCalls, rcaResult>>
       ELSE /\ generateCalls' = generateCalls + 1
            /\ rcaResult' = generateRCA(result["k8s"].value,
                                        ValueOrNull(result["logs"]),
                                        ValueOrNull(result["k8sgpt"]))
            /\ pc' = "commit"
            /\ UNCHANGED <<audit, error>>
  /\ UNCHANGED <<includeLogs, k8sgptClient, launchedAt, remote, timer, result, calls,
                 warnings, gitCommit, outputs, now, clientVars, policyVars, syncVars, logsVars>>

\* commitRCAToGit resolved: audit record RCA_COMPLETED, then the six outputs.
\* (faulty variant: the audit record reports the sources that were requested)
CommitResolvesReportsRequested ==
  /\ pc = "commit"
  /\ gitCommit' = "abc123"
  /\ audit' = Append(audit,
       [event |-> "RCA_COMPLETED",
        confidence |-> rcaResult.confidence,
        gitCommit |-> "abc123",
        dataSourcesUsed |-> [kubernetes |-> TRUE,
                             logs |-> includeLogs,
                             k8sgpt |-> k8sgptClient]])
  /\ outputs' = [rcaSummary |-> rcaResult.summary,
                 confidenceScore |-> rcaResult.confidence,
                 contributingFactors |-> rcaResult.factors,
                 recommendedActions |-> rcaResult.actions,
                 evidence |-> rcaResult.evidence,
                 gitCommit |-> "abc123"]
  /\ pc' = "done"
  /\ UNCHANGED <<includeLogs, k8sgptClient, launchedAt, remote, timer, result, calls,
                 warnings, generateCalls, rcaResult, error, now, clientVars, policyVars, syncVars, logsVars>>
\* (as written)
CommitResolves ==
  /\ pc = "commit"
  /\ gitCommit' = "abc123"
  /\ audit' = Append(audit,
       [event |-> "RCA_COMPLETED",
        confidence |-> rcaResult.confidence,
        gitCommit |-> "abc123",
        dataSourcesUsed |-> [kubernetes |-> TRUE,
                             logs |-> ValueOrNull(result["logs"]) # NULL,
                             k8sgpt |-> ValueOrNull(result["k8sgpt"]) # NULL]])
  /\ outputs' = [rcaSummary |-> rcaResult.summary,
                 confidenceScore |-> rcaResult.confidence,
                 contributingFactors |-> rcaResult.factors,
                 recommendedActions |-> rcaResult.actions,
                 evidence |-> rcaResult.evidence,
                 gitCommit |-> "abc123"]
  /\ pc' = "done"
  /\ UNCHANGED <<includeLogs, k8sgptClient, launchedAt, remote, timer, result, calls,
                 warnings, generateCalls, rcaResult, error, now, clientVars, policyVars, syncVars, logsVars>>

\* commitRCAToGit rejected: the catch block runs.
\* (faulty variant: the result's outputs are set before the commit is awaited)
CommitRejectsAfterOutputs ==
  /\ pc = "commit"
  /\ Fail("Git commit failed")
  /\ outputs' = [rcaSummary |-> rcaResult.summary,
                 confidenceScore |-> rcaResult.confidence,
                 contributingFactors |-> rcaResult.factors,
                 recommendedActions |-> rcaResult.actions,
                 evidence |-> rcaResult.evidence]
  /\ UNCHANGED <<includeLogs, k8sgptClient, launchedAt, remote, timer, result, calls,
                 warnings, generateCalls, rcaResult, gitCommit, now, clientVars, policyVars, syncVars, logsVars>>
\* (as written)
CommitRejects ==
  /\ pc = "commit"
  /\ Fail("Git commit failed")
  /\ UNCHANGED <<includeLogs, k8sgptClient, launchedAt, remote, timer, result, calls,
                 warnings, generateCalls, rcaResult, gitCommit, outputs, now, clientVars, policyVars, syncVars, logsVars>>

\* No timer of the run is due.
RunQuiet == \A k \in Sources : ~TimerDue(k)

RunTick ==
  /\ RunQuiet
  /\ ClientQuiet
  /\ now + RunStep <= MaxRunTime
  /\ now' = now + RunStep
  /\ UNCHANGED <<clientVars, runVars, policyVars, syncVars, logsVars>>

SpecRcaInit ==
  /\ ClientInit
  /\ now = 0
  /\ \E logsWanted \in BOOLEAN, clientGiven \in BOOLEAN : RunInit(logsWanted, clientGiven)
  /\ PolicyIdle
  /\ SyncIdle /\ LogsIdle

SpecRcaNext ==
  \/ EntityResolves
  \/ EntityRejects
  \/ \E k \in Sources : \E v \in Payloads(k) : ProviderResolves(k, v)
  \/ \E k \in Sources : \E msg \in ProviderErrors(k) : ProviderRejects(k, msg)
  \/ \E k \in Sources : TimerFires(k)
  \/ Join
  \/ CommitResolves
  \/ CommitRejects
  \/ RunTick

SpecRca == SpecRcaInit /\ [][SpecRcaNext]_vars

\* A run under its scheduling: the event loop runs a timer callback that is due
\* and the continuation of an await that has settled, time passes, and entity
\* resolution and the Git commit return. The providers need not answer.
SpecRcaFair ==
  /\ SpecRca
  /\ WF_vars(EntityResolves \/ EntityRejects)
  /\ \A k \in Sources : WF_vars(TimerFires(k))
  /\ WF_vars(Join)
  /\ WF_vars(CommitResolves \/ CommitRejects)
  /\ WF_vars(RunTick)

\* A run of the handler while other callers use the ResilientLLMClient.
SpecRcaClientNext ==
  \/ SpecRcaNext
  \/ Query(MaxRunQueries)
  \/ StartJob
  \/ CallSucceeds
  \/ CallFails

SpecRcaClient == SpecRcaInit /\ [][SpecRcaClientNext]_vars

(* ---------------- generateRCA over a range of inputs ---------------- *)

\* Sequences over S of length at most n.
SeqsUpTo(S, n) == UNION { [1..m -> S] : m \in 0..n }

\* Kubernetes contexts: every event list up to MaxEvents over four kinds of event.
GenEvents ==
  { [type |-> "Warning", reason |-> "BackOff"], [type |-> "Warning", reason |-> "Failed"],
    [type |-> "Normal", reason |-> "Started"], [type |-> "Normal", reason |-> "Failed"] }
\* A list of n events, two in three of them critical: a Warning with a reason of
\* its own, a Normal event with reason Failed, a Normal event.
LongEvents(n) ==
  [i \in 1..n |->
     CASE i % 3 = 1 -> [type |-> "Warning", reason |-> "BackOff" \o ToString(i)]
       [] i % 3 = 2 -> [type |-> "Normal", reason |-> "Failed"]
       [] OTHER -> [type |-> "Normal", reason |-> "Started"]]
GenK8sContexts ==
  { [tag |-> "k8s", k8sEvents |-> es] : es \in SeqsUpTo(GenEvents, MaxEvents) }
  \cup { [tag |-> "k8s", k8sEvents |-> LongEvents(n)] : n \in (MaxLongEvents - 2)..MaxLongEvents }

\* Log outcomes: error counts and pattern lists, the latter both as
\* fetchLogAnomalies formats them ("<pattern> (<count>x)") and as bare names.
GenErrorCounts == {0, 2, 5}
GenPatterns ==
  { <<>>, <<"timeout (5x)">>, <<"OOMKilled (3x)", "timeout (2x)">>,
    <<"timeout">>, <<"OOMKilled">>, <<"OOMKilled", "timeout">>, <<"timeout", "OOMKilled">> }
GenEntries(n) == [i \in 1..(n + 1) |-> IF i <= n THEN "e" \o ToString(i) ELSE "w1"]
GenLogAnomalies ==
  LogAnomalies \cup
  { [tag |-> "logs", entries |-> GenEntries(n), errorCount |-> n, warningCount |-> 1,
     patterns |-> ps] : n \in GenErrorCounts, ps \in GenPatterns }

\* k8sgpt analyses: every problem list up to MaxProblems over two descriptions.
GenProblems == { [description |-> "CrashLoopBackOff"], [description |-> "ImagePullBackOff"] }
GenAnalyses == { [tag |-> "k8sgpt", problems |-> ps] : ps \in SeqsUpTo(GenProblems, MaxProblems) }

\* The handler at the join with all three entries fulfilled: a context, a log
\* outcome or null (logs not requested), an analysis or null (no client).
SpecGenInit ==
  /\ ClientInit
  /\ now = 0
  /\ \E k8sContext \in GenK8sContexts,
        logAnomalies \in GenLogAnomalies \cup {NULL},
        k8sgptAnalysis \in GenAnalyses \cup {NULL} :
       /\ includeLogs = (logAnomalies # NULL)
       /\ k8sgptClient = (k8sgptAnalysis # NULL)
       /\ result = [k \in Sources |->
                      CASE k = "k8s" -> Fulfilled(k8sContext)
                        [] k = "logs" -> Fulfilled(logAnomalies)
                        [] k = "k8sgpt" -> Fulfilled(k8sgptAnalysis)]
  /\ pc = "join"
  /\ launchedAt = 0
  /\ remote = [k \in Sources |-> IF Launched(k) THEN "resolved" ELSE "none"]
  /\ timer = [k \in Sources |-> IF Launched(k) THEN "armed" ELSE "none"]
  /\ calls = [k \in Sources |-> IF Launched(k) THEN 1 ELSE 0]
  /\ warnings = {}
  /\ generateCalls = 0
  /\ rcaResult = NoResult
  /\ gitCommit = NoCommit
  /\ outputs = << >>
  /\ audit = << >>
  /\ error = NoError
  /\ PolicyIdle
  /\ SyncIdle /\ LogsIdle

SpecGenNext == Join

SpecGen == SpecGenInit /\ [][SpecGenNext]_vars

\* A run with all three sources requested, from its start to generateRCA, the
\* providers answering in any order with any of the payloads above.
GenPayloads(k) ==
  CASE k = "k8s" -> GenK8sContexts
    [] k = "logs" -> GenLogAnomalies
    [] k = "k8sgpt" -> GenAnalyses

SpecOrderInit ==
  /\ ClientInit
  /\ now = 0
  /\ RunInit(TRUE, TRUE)
  /\ PolicyIdle
  /\ SyncIdle /\ LogsIdle

SpecOrderNext ==
  \/ EntityResolves
  \/ \E k \in Sources : \E v \in GenPayloads(k) : ProviderResolves(k, v)
  \/ Join

SpecOrder == SpecOrderInit /\ [][SpecOrderNext]_vars

SpecLLMInit == ClientInit /\ now = 0 /\ RunInit(TRUE, FALSE) /\ PolicyIdle /\ SyncIdle /\ LogsIdle

SpecLLMNext ==
  \/ Query(MaxQueries)
  \/ StartJob
  \/ CallSucceeds
  \/ CallFails
  \/ ResetTimerFires
  \/ ReservoirRefresh
  \/ ClientTick

SpecLLM == SpecLLMInit /\ [][SpecLLMNext]_vars

\* The client under its scheduling: the limiter starts a job that can start, the
\* refresh interval and the reset timeouts fire when due, time passes, and every
\* provider call in flight returns.
SpecLLMFair ==
  /\ SpecLLM
  /\ WF_vars(StartJob)
  /\ WF_vars(ReservoirRefresh)
  /\ WF_vars(ResetTimerFires)
  /\ WF_vars(ClientTick)
  /\ WF_vars(CallSucceeds \/ CallFails)

\* The client observed with its ledger: who called, and what each caller received.
SpecLLMLedgerInit ==
  /\ ClientStart
  /\ ledger = [waiting |-> << >>, inflight |-> << >>, log |-> << >>,
               last |-> [provider |-> "", got |-> ""]]
  /\ now = 0
  /\ RunInit(TRUE, FALSE)
  /\ PolicyIdle
  /\ SyncIdle /\ LogsIdle

SpecLLMLedgerNext ==
  \/ Query(MaxLedgerQueries)
  \/ StartJob
  \/ CallSucceeds
  \/ CallFails
  \/ ResetTimerFires
  \/ ReservoirRefresh
  \/ ClientTick

SpecLLMLedger == SpecLLMLedgerInit /\ [][SpecLLMLedgerNext]_vars

(* ---------------- K8sNamespacePolicy ---------------- *)

\* A string of the policy is a sequence of symbols: the hyphen, the dot, and words
\* that hold neither. "team-a-prod" is <<"team", "-", "a", "-", "prod">>.

\* str.startsWith(prefix)
StartsWith(str, prefix) ==
  Len(str) >= Len(prefix) /\ SubSeq(str, 1, Len(prefix)) = prefix

\* str.split(sep): the pieces between the separators, empty pieces included.
RECURSIVE split(_, _)
split(str, sep) ==
  IF \A i \in 1..Len(str) : str[i] # sep
    THEN <<str>>
    ELSE LET first == CHOOSE i \in 1..Len(str) :
                        str[i] = sep /\ \A j \in 1..(i - 1) : str[j] # sep
         IN <<SubSeq(str, 1, first - 1)>> \o split(SubSeq(str, first + 1, Len(str)), sep)

\* parts.join(sep)
RECURSIVE join(_, _)
join(parts, sep) ==
  IF Len(parts) = 0 THEN << >>
  ELSE IF Len(parts) = 1 THEN parts[1]
  ELSE parts[1] \o <<sep>> \o join(Tail(parts), sep)

validEnvironments == << <<"prod">>, <<"staging">>, <<"dev">>, <<"test">> >>

\* `group:default/${teamName}`
\* (faulty variant: the last part is dropped whatever it is)
getExpectedOwnerAnySuffix(namespace) ==
  LET parts == split(namespace, "-")
  IN IF Len(parts) < 2
       THEN <<"group:default/">> \o namespace
       ELSE <<"group:default/">> \o join(SubSeq(parts, 1, Len(parts) - 1), "-")
\* (as written)
getExpectedOwner(namespace) ==
  LET parts == split(namespace, "-")
  IN IF Len(parts) < 2
       THEN <<"group:default/">> \o namespace
       ELSE LET environment == parts[Len(parts)]
                teamName == IF Includes(validEnvironments, environment)
                              THEN join(SubSeq(parts, 1, Len(parts) - 1), "-")
                              ELSE namespace
            IN <<"group:default/">> \o teamName

validateNamespaceOwnership(namespace, userGroups) ==
  Includes(userGroups, getExpectedOwner(namespace))

isSharedNamespace(namespace) == Includes(policyConfig.sharedNamespaces, namespace)

isKubernetesPermission(permission) ==
  \/ StartsWith(permission.name, <<"kubernetes", ".">>)
  \/ StartsWith(permission.name, <<"catalog", ".", "entity", ".", "kubernetes">>)

\* getUserGroups: the ownership refs of the principal, [] when the lookup fails.
getUserGroups(req) == IF req.identity.ok THEN req.identity.refs ELSE << >>

\* getEntity: undefined without a resourceRef and when the catalog lookup fails,
\* otherwise whatever the catalog answered.
getEntity(req) ==
  IF req.catalog.kind \in {"entity", "malformed"} THEN req.catalog ELSE NULL

\* extractNamespace: the first of the two annotations that is set; an annotation
\* that is not set, like the empty string, is << >>.
extractNamespace(entity) ==
  IF entity.annotations["backstage.io/kubernetes-namespace"] # << >>
    THEN entity.annotations["backstage.io/kubernetes-namespace"]
    ELSE entity.annotations["kubernetes.io/namespace"]

\* auditLog: one logger.info record when audit logging is enabled.
auditLog(action, metadata) ==
  IF policyConfig.enableAuditLogging
    THEN <<[action |-> action, metadata |-> metadata]>>
    ELSE << >>

denyAccess(req, reason) ==
  [result |-> "DENY", log |-> auditLog("NAMESPACE_ACCESS_DENIED", reason)]

\* The catch of handle: DENY, with a logger.error record and no audit record.
catchError == [result |-> "DENY", log |-> << >>]

\* handle(request): the decision and the audit records it writes. Reading
\* entity.metadata.annotations of an answer without metadata throws a TypeError
\* inside the try.
handle(req) ==
  IF ~isKubernetesPermission(req.permission)
    THEN [result |-> "ALLOW", log |-> << >>]
    ELSE
      LET userGroups == getUserGroups(req)
          entity == getEntity(req)
      IN IF entity = NULL
           THEN denyAccess(req, "Entity not found")
           ELSE IF entity.kind = "malformed"
             THEN catchError
           ELSE
             LET namespace == extractNamespace(entity)
             IN IF namespace = << >>
                  THEN IF policyConfig.strictMode
                         THEN denyAccess(req, "Entity missing kubernetes namespace annotation")
                         ELSE [result |-> "ALLOW", log |-> << >>]
                  ELSE IF isSharedNamespace(namespace)
                    THEN [result |-> "ALLOW",
                          log |-> auditLog("SHARED_NAMESPACE_ACCESS", namespace)]
                  ELSE IF validateNamespaceOwnership(namespace, userGroups)
                    THEN [result |-> "ALLOW",
                          log |-> auditLog("NAMESPACE_ACCESS_GRANTED", namespace)]
                  ELSE denyAccess(req, "User not authorized for namespace")

\* One evaluation of the policy.
Handle ==
  /\ decision = "none"
  /\ decision' = handle(request).result
  /\ policyLog' = policyLog \o handle(request).log
  /\ UNCHANGED <<request, policyConfig, clientVars, runVars, syncVars, logsVars, now>>

\* --- the requests of the model ---

Hyphenated(a, b) == a \o <<"-">> \o b

TeamA == <<"team", "-", "a">>
TeamB == <<"team", "-", "b">>
PlatformEngineering == <<"platform", "-", "engineering">>
Monitoring == <<"monitoring">>

\* Strings of 0..MaxNamespaceLen symbols over a hyphen, a word and an environment.
GenStrings == SeqsUpTo({"-", "a", "prod"}, MaxNamespaceLen)

Namespaces ==
  (GenStrings \ {<< >>}) \cup
  { Hyphenated(TeamA, <<"prod">>), Hyphenated(TeamA, <<"staging">>),
    Hyphenated(TeamA, <<"dev">>), Hyphenated(TeamA, <<"test">>),
    Hyphenated(TeamB, <<"prod">>), Hyphenated(PlatformEngineering, <<"prod">>),
    Monitoring, Hyphenated(<<"platform">>, <<"tools">>) }

TeamNames == GenStrings \cup {TeamA, TeamB, PlatformEngineering, <<"platform">>}

GroupRef(team) == <<"group:default/">> \o team
UserRef == <<"user:default/", "alice">>

\* Answers of identity.getOwnershipEntityRefs: a failure, or the user's refs.
IdentityAnswers ==
  {[ok |-> FALSE, refs |-> << >>], [ok |-> TRUE, refs |-> <<UserRef>>],
   [ok |-> TRUE, refs |-> <<UserRef, GroupRef(TeamA), GroupRef(TeamB)>>]}
  \cup {[ok |-> TRUE, refs |-> <<UserRef, GroupRef(t)>>] : t \in TeamNames}

Annotations(primary, secondary) ==
  ("backstage.io/kubernetes-namespace" :> primary) @@ ("kubernetes.io/namespace" :> secondary)

\* Answers of the catalog: no resourceRef in the request, a failed lookup, no such
\* entity, an object without metadata, or an entity with its two namespace
\* annotations.
CatalogAnswers ==
  {[kind |-> "noRef"], [kind |-> "error"], [kind |-> "undefined"], [kind |-> "malformed"]}
  \cup {[kind |-> "entity", annotations |-> Annotations(n, << >>)] : n \in Namespaces \cup {<< >>}}
  \cup {[kind |-> "entity", annotations |-> Annotations(<< >>, Hyphenated(TeamA, <<"prod">>))],
        [kind |-> "entity", annotations |-> Annotations(Hyphenated(TeamB, <<"prod">>),
                                                        Hyphenated(TeamA, <<"prod">>))]}

PermissionNames ==
  { <<"kubernetes", ".", "proxy">>,
    <<"catalog", ".", "entity", ".", "kubernetes", ".", "read">>,
    <<"catalog", ".", "entity", ".", "read">> }

\* createK8sNamespacePolicy: the default shared namespaces.
sharedNamespaces ==
  <<Monitoring, Hyphenated(<<"platform">>, <<"tools">>), Hyphenated(<<"flux">>, <<"system">>)>>

SpecPolicyInit ==
  /\ ClientInit
  /\ now = 0
  /\ RunInit(TRUE, FALSE)
  /\ request \in [permission : {[name |-> p] : p \in PermissionNames},
                  identity : IdentityAnswers,
                  catalog : CatalogAnswers]
  /\ policyConfig \in [sharedNamespaces : {sharedNamespaces},
                       enableAuditLogging : BOOLEAN,
                       strictMode : BOOLEAN]
  /\ decision = "none"
  /\ policyLog = << >>
  /\ SyncIdle /\ LogsIdle

SpecPolicyNext == Handle

SpecPolicy == SpecPolicyInit /\ [][SpecPolicyNext]_vars

(* ---------------- ZitadelGroupSyncResolver ---------------- *)

\* createZitadelGroupSyncResolver: the defaults of the configuration.
teamPrefix == <<"team", "-">>
groupDomain == "default"

expectedIssuers ==
  << <<"http://zitadel:8080">>, <<"http://localhost:8080">>,
     <<"https://zitadel.yourcompany.com">> >>

\* validateIssuer: the message of the error it throws, "" when it returns.
validateIssuer(c) ==
  IF c.iss = << >>
    THEN "Token missing issuer claim"
    ELSE IF \E i \in 1..Len(expectedIssuers) : StartsWith(c.iss, expectedIssuers[i])
      THEN ""
      ELSE "Invalid token issuer"

\* extractUserId: the first of the candidates that is set.
extractUserId(c) ==
  IF c.email # << >> THEN c.email
  ELSE IF c.profileEmail # << >> THEN c.profileEmail
  ELSE IF c.preferred_username # << >> THEN c.preferred_username
  ELSE c.sub

\* getRolesFromClaims: the value under the role claim path, NULL without one.
getRolesFromClaims(c) == IF c.roles.kind = "absent" THEN NULL ELSE c.roles

roleSuffixes ==
  << <<"admin">>, <<"developer">>, <<"viewer">>, <<"owner">>, <<"member">> >>

\* String.prototype.toLowerCase on the words of the model.
toLowerCase(str) ==
  [i \in 1..Len(str) |->
     CASE str[i] = "Admin" -> "admin"
       [] str[i] = "OWNER" -> "owner"
       [] OTHER -> str[i]]

\* teams.add(teamName): a Set keeps insertion order and holds a value once.
SetAdd(seq, x) == IF Includes(seq, x) THEN seq ELSE Append(seq, x)

\* The parts of a role that make its team name: the parts after the first, less
\* a trailing role suffix.
teamParts(role) ==
  LET parts == split(role, "-")
      afterFirst == Tail(parts)
      lastPart == afterFirst[Len(afterFirst)]
  IN IF Includes(roleSuffixes, toLowerCase(lastPart))
       THEN SubSeq(afterFirst, 1, Len(afterFirst) - 1)
       ELSE afterFirst

\* extractTeamsFromRoles: the loop over the role keys, in order.
RECURSIVE extractTeamsFromRoles(_)
extractTeamsFromRoles(roleKeys) ==
  IF roleKeys = << >> THEN << >>
  ELSE LET teams == extractTeamsFromRoles(SubSeq(roleKeys, 1, Len(roleKeys) - 1))
           role == roleKeys[Len(roleKeys)]
       IN IF ~StartsWith(role, teamPrefix) THEN teams
          ELSE IF Len(split(role, "-")) < 2 THEN teams
          ELSE IF Len(teamParts(role)) = 0 THEN teams
          ELSE SetAdd(teams, join(teamParts(role), "-"))

\* [...new Set(groups)]
RECURSIVE Deduplicate(_)
Deduplicate(groups) ==
  IF groups = << >> THEN << >>
  ELSE SetAdd(Deduplicate(SubSeq(groups, 1, Len(groups) - 1)), groups[Len(groups)])

\* extractGroups: `group:${groupDomain}/${team}` for every team of the roles.
extractGroups(c) ==
  LET roles == getRolesFromClaims(c)
  IN IF roles = NULL \/ roles.kind # "object"
       THEN << >>
       ELSE LET teams == extractTeamsFromRoles(roles.keys)
                groups == [i \in 1..Len(teams) |->
                             <<"group:" \o groupDomain \o "/">> \o teams[i]]
            IN Deduplicate(groups)

\* resolve: validateIssuer throws, or the token is issued with sub and ent.
Resolve ==
  /\ claims # NoRequest
  /\ backstageToken = NoToken
  /\ resolveError = ""
  /\ IF validateIssuer(claims) # ""
       THEN /\ resolveError' = validateIssuer(claims)
            /\ UNCHANGED backstageToken
       ELSE /\ backstageToken' = [sub |-> extractUserId(claims),
                                  ent |-> extractGroups(claims)]
            /\ UNCHANGED resolveError
  /\ UNCHANGED <<claims, clientVars, runVars, policyVars, logsVars, now>>

\* --- the tokens of the model ---

RoleOf(team, suffix) == Hyphenated(team, <<suffix>>)

RoleNames ==
  { RoleOf(TeamA, "admin"), RoleOf(TeamA, "developer"), RoleOf(TeamA, "Admin"),
    RoleOf(TeamB, "developer"), RoleOf(PlatformEngineering, "owner"),
    RoleOf(Hyphenated(<<"team">>, PlatformEngineering), "developer"),
    TeamA, RoleOf(<<"team">>, "admin"), <<"viewer">> }

\* Object.keys(roles): up to MaxRoles distinct keys, in any order.
RoleKeyLists ==
  { s \in SeqsUpTo(RoleNames, MaxRoles) :
      \A i, j \in 1..Len(s) : i # j => s[i] # s[j] }

\* The value under the role claim path: none, a string, or an object.
RoleClaims ==
  {[kind |-> "absent"], [kind |-> "string"]}
  \cup {[kind |-> "object", keys |-> s] : s \in RoleKeyLists}

Issuers ==
  { << >>, <<"http://zitadel:8080">>, <<"https://zitadel.yourcompany.com">>,
    <<"https://zitadel.yourcompany.com", ".evil.example">>, <<"https://evil.example">> }

SpecSyncInit ==
  /\ ClientInit
  /\ now = 0
  /\ RunInit(TRUE, FALSE)
  /\ PolicyIdle
  /\ claims \in [iss : Issuers,
                 email : {<< >>, <<"alice@company.com">>},
                 profileEmail : {<< >>},
                 preferred_username : {<< >>, <<"alice">>},
                 sub : {<<"1234567890">>},
                 roles : RoleClaims]
  /\ backstageToken = NoToken
  /\ resolveError = ""
  /\ LogsIdle

SpecSyncNext == Resolve

SpecSync == SpecSyncInit /\ [][SpecSyncNext]_vars

(* ---------------- sign-in followed by a permission request ---------------- *)

\* The policy decides a request of the user who signed in: the ownership refs
\* that identity.getOwnershipEntityRefs returns for the principal are the ent
\* claim of the Backstage token that resolve issued.
HandleSignedIn ==
  /\ backstageToken # NoToken
  /\ decision = "none"
  /\ LET req == [request EXCEPT !.identity = [ok |-> TRUE, refs |-> backstageToken.ent]]
     IN /\ request' = req
        /\ decision' = handle(req).result
        /\ policyLog' = policyLog \o handle(req).log
  /\ UNCHANGED <<policyConfig, clientVars, runVars, syncVars, logsVars, now>>

\* The teams T of the roles team-T-<suffix> and of the namespaces team-T-<env>.
TeamWords == { <<"a">>, <<"b">>, PlatformEngineering }
TeamOfWord(t) == Hyphenated(<<"team">>, t)
Suffixes == {"admin", "developer", "viewer", "owner", "member"}
TeamEnvironments == {"prod", "staging", "dev"}

\* A user whose only ZITADEL role is team-T-<suffix> signs in and asks for a
\* Kubernetes permission on an entity of the namespace team-T'-<env>.
SpecTenantInit ==
  /\ ClientInit
  /\ now = 0
  /\ RunInit(TRUE, FALSE)
  /\ LogsIdle
  /\ \E t \in TeamWords, sfx \in Suffixes :
       claims = [iss |-> <<"https://zitadel.yourcompany.com">>,
                 email |-> <<"alice@company.com">>,
                 profileEmail |-> << >>,
                 preferred_username |-> <<"alice">>,
                 sub |-> <<"1234567890">>,
                 roles |-> [kind |-> "object", keys |-> <<RoleOf(TeamOfWord(t), sfx)>>]]
  /\ backstageToken = NoToken
  /\ resolveError = ""
  /\ \E t \in TeamWords, env \in TeamEnvironments :
       request = [permission |-> [name |-> <<"kubernetes", ".", "proxy">>],
                  identity |-> NULL,
                  catalog |-> [kind |-> "entity",
                               annotations |-> Annotations(Hyphenated(TeamOfWord(t), <<env>>),
                                                           << >>)]]
  /\ policyConfig \in [sharedNamespaces : {sharedNamespaces},
                       enableAuditLogging : BOOLEAN,
                       strictMode : BOOLEAN]
  /\ decision = "none"
  /\ policyLog = << >>

SpecTenantNext == Resolve \/ HandleSignedIn

SpecTenant == SpecTenantInit /\ [][SpecTenantNext]_vars

(* ---------------- VictoriaLogsClient.fetchLogAnomalies ---------------- *)

\* What a call produces: the value it returns or the error it throws.
Returned(v) == [threw |-> FALSE, value |-> v, error |-> ""]
Threw(msg) == [threw |-> TRUE, value |-> NULL, error |-> msg]

\* A time range is a sequence of symbols: "15m" is <<"15", "m">>.
multipliers ==
  ("s" :> 1000) @@ ("m" :> 60 * 1000) @@ ("h" :> 60 * 60 * 1000)
    @@ ("d" :> 24 * 60 * 60 * 1000)

\* parseInt(match[1], 10) on the digit words of the model.
parseInt == ("1" :> 1) @@ ("5" :> 5) @@ ("6" :> 6) @@ ("15" :> 15) @@ ("24" :> 24)

\* parseTimeRange: the milliseconds of a range matching /^(\d+)([smhd])$/.
parseTimeRange(range) ==
  IF Len(range) = 2 /\ range[1] \in DOMAIN parseInt /\ range[2] \in DOMAIN multipliers
    THEN Returned(parseInt[range[1]] * multipliers[range[2]])
    ELSE Threw("Invalid time range format")

\* queryLogs: normalizeTime(start) of a start "-<range>" is parseTimeRange of the
\* range, and its error is rethrown; then the HTTP query returns the parsed
\* entries or throws 'VictoriaLogs query failed' or 'Log query timeout'.
queryLogs(start, http) ==
  IF parseTimeRange(Tail(start)).threw THEN parseTimeRange(Tail(start)) ELSE http

defaultPatterns ==
  <<"ERROR", "CRITICAL", "FATAL", "timeout", "deadline exceeded", "OOMKilled",
    "OutOfMemory", "connection refused", "failed to", "exception", "panic">>

\* pattern.toLowerCase()
lowerCase(pattern) ==
  CASE pattern = "ERROR" -> "error"
    [] pattern = "CRITICAL" -> "critical"
    [] pattern = "FATAL" -> "fatal"
    [] pattern = "OOMKilled" -> "oomkilled"
    [] pattern = "OutOfMemory" -> "outofmemory"
    [] OTHER -> pattern

\* The top 5 patterns: patternCounts holds the matched patterns in the order they
\* were first counted (entry by entry, pattern by pattern), the sort by count is
\* stable, and each is written `${pattern} (${count}x)`. The message of an entry
\* is the set of lower-case fragments it contains.
topPatterns(entries, patterns) ==
  LET Hits(j) == {i \in 1..Len(entries) : lowerCase(patterns[j]) \in entries[i].message}
      matched == {j \in 1..Len(patterns) : Hits(j) # {}}
      First(j) == CHOOSE i \in Hits(j) : \A k \in Hits(j) : i <= k
      Before(j, k) ==
        \/ Cardinality(Hits(j)) > Cardinality(Hits(k))
        \/ /\ Cardinality(Hits(j)) = Cardinality(Hits(k))
           /\ \/ First(j) < First(k)
              \/ First(j) = First(k) /\ j < k
      Ranked(r) == CHOOSE j \in matched : Cardinality({k \in matched : Before(k, j)}) = r - 1
  IN [r \in 1..Min(5, Cardinality(matched)) |->
        patterns[Ranked(r)] \o " (" \o ToString(Cardinality(Hits(Ranked(r)))) \o "x)"]

\* fetchLogAnomalies(namespace, timeRange): the try returns the analysis of the
\* entries; the catch returns the empty result, and both compute the start of
\* the result's time range with parseTimeRange(timeRange).
fetchLogAnomalies(timeRange, http) ==
  LET answer == queryLogs(<<"-">> \o timeRange, http)
      span == parseTimeRange(timeRange)
  IN IF ~answer.threw /\ ~span.threw
       THEN Returned(
              [entries |-> answer.value,
               errorCount |-> Cardinality({i \in 1..Len(answer.value) :
                                answer.value[i].level \in {"error", "critical", "fatal"}}),
               warningCount |-> Cardinality({i \in 1..Len(answer.value) :
                                  answer.value[i].level \in {"warning", "warn"}}),
               patterns |-> topPatterns(answer.value, defaultPatterns),
               span |-> span.value])
       ELSE IF span.threw
         THEN span
         ELSE Returned([entries |-> << >>, errorCount |-> 0, warningCount |-> 0,
                        patterns |-> << >>, span |-> span.value])

\* One call of fetchLogAnomalies.
FetchLogAnomalies ==
  /\ logCall # NoRequest
  /\ logReturn = NoRequest
  /\ logReturn' = fetchLogAnomalies(logCall.timeRange, logCall.http)
  /\ UNCHANGED <<logCall, clientVars, runVars, policyVars, syncVars, now>>

\* --- the calls of the model ---

\* The time ranges the rca:analyze action accepts, and other strings.
TimeRanges ==
  { <<"5", "m">>, <<"15", "m">>, <<"1", "h">>, <<"6", "h">>, <<"24", "h">> }
OtherTimeRanges == { <<"1", "w">>, <<"15">>, <<"m">>, << >> }

LogEntries ==
  [level : {"error", "warn", "info"},
   message : {{}, {"timeout"}, {"error", "timeout"}, {"oomkilled"}}]

HttpOutcomes ==
  {Returned(es) : es \in SeqsUpTo(LogEntries, MaxLogEntries)}
  \cup {Threw("VictoriaLogs query failed"), Threw("Log query timeout")}

SpecLogsInit ==
  /\ ClientInit
  /\ now = 0
  /\ RunInit(TRUE, FALSE)
  /\ PolicyIdle
  /\ SyncIdle
  /\ logCall \in [timeRange : TimeRanges \cup OtherTimeRanges, http : HttpOutcomes]
  /\ logReturn = NoRequest

SpecLogsNext == FetchLogAnomalies

SpecLogs == SpecLogsInit /\ [][SpecLogsNext]_vars

(* ---------------- claims on ResilientLLMClient ---------------- *)

\* A step that is a call of query().
QueryIssued == issued' = issued + 1

\* C1: from a Closed breaker, after 3 consecutive failures every query issued
\* before 60 s have elapsed since the breaker opened is rejected and leaves the
\* provider's invocation count unchanged; a query issued after the 60 s is admitted.
C1_RejectedDuringCooldown ==
  [][ /\ (QueryIssued /\ openedAt >= 0 /\ now < openedAt + resetTimeout)
          => (rejected' = rejected + 1 /\ providerCalls' = providerCalls)
      /\ (QueryIssued /\ openedAt >= 0 /\ now > openedAt + resetTimeout)
          => (rejected' = rejected /\ queued' = queued + 1) ]_vars

\* C2: a query issued while the breaker is Open is rejected and changes neither
\* the reservoir, nor the limiter's queued and running counts, nor the provider's
\* invocation count, nor failureCount.
C2_OpenQueryChangesNothing ==
  [][ (QueryIssued /\ circuitBreakerOpen)
        => /\ rejected' = rejected + 1
           /\ reservoir' = reservoir
           /\ queued' = queued
           /\ running' = running
           /\ providerCalls' = providerCalls
           /\ circuitBreakerFailures' = circuitBreakerFailures
           /\ circuitBreakerOpen' = circuitBreakerOpen
           /\ resetTimers' = resetTimers ]_vars

\* C2 witness: a query was rejected by the gate of an Open breaker while other
\* admitted calls were still in the limiter.
C2_Witness == rejected > 0 /\ circuitBreakerOpen /\ running > 0 /\ queued > 0

\* C10: the reservoir is never negative and the calls in flight never exceed
\* maxConcurrent.
C10_LimiterBounds == reservoir >= 0 /\ running <= maxConcurrent

\* C10 witness: the window's tokens are used up, both slots are taken and a job waits.
C10_Witness == reservoir = 0 /\ running = maxConcurrent /\ queued > 0

\* C11: at most windowCapacity provider calls start in one window (also when more
\* queries than that were issued in it), a call beyond the first window's capacity
\* starts only after a reservoir refresh, and every admitted query is either
\* still queued or has had its provider call started: none is dropped.
C11_WindowCapacity ==
  /\ windowStarts <= reservoirRefreshAmount
  /\ providerCalls > reservoirInitial => lastReservoirRefresh >= reservoirRefreshInterval
  /\ issued = rejected + queued + providerCalls

\* C11 witness: more queries than the window's capacity were admitted inside the
\* first window; its ten tokens are used up by ten started calls and the excess
\* query waits in the limiter's queue.
C11_Witness ==
  /\ now < reservoirRefreshInterval
  /\ issued > reservoirInitial
  /\ rejected = 0
  /\ windowStarts = reservoirInitial
  /\ queued = issued - reservoirInitial

\* C12: the limiter rejects nothing. Every admitted query is in the queue or has
\* had its provider call started, never more calls than admitted queries; and a
\* query waiting in the queue during the first window is eventually started: the
\* queue is served first in first out, so it is empty only after that query's
\* call has started. (The clock of the model ends after the second window has
\* begun, so the refresh that second-window waiters need is not in the model.)
C12_EveryScheduledCallStarts ==
  /\ [](providerCalls + queued = issued - rejected)
  /\ (queued > 0 /\ now < reservoirRefreshInterval) ~> (queued = 0)

\* C12 witness: every admitted query has been started, and they were more than one
\* window's tokens, so the last ones had to wait for the refresh.
C12_Witness ==
  /\ queued = 0
  /\ providerCalls = issued - rejected
  /\ providerCalls > reservoirInitial

\* The last value the clock of a client behaviour takes.
LastClock == (MaxTime \div Tick) * Tick

\* C24: the breaker goes from Open to Closed only with failureCount set to 0 and
\* without a provider call being started in that step; a breaker still Open when
\* the cooldown of its opening has elapsed has a reset timer that is due; and a
\* breaker that opened is eventually Closed with failureCount 0, for every
\* opening whose cooldown ends within the clock of the model.
C24_OpenIsLeft ==
  /\ []((circuitBreakerOpen /\ now >= openedAt + resetTimeout)
         => (resetTimers # << >> /\ Head(resetTimers) <= now))
  /\ [][ (circuitBreakerOpen /\ ~circuitBreakerOpen')
          => (circuitBreakerFailures' = 0 /\ providerCalls' = providerCalls) ]_vars
  /\ (circuitBreakerOpen /\ openedAt + resetTimeout <= LastClock)
       ~> (~circuitBreakerOpen /\ circuitBreakerFailures = 0)

\* C24 witness: the cooldown of the last opening has elapsed, no timer is pending,
\* and the breaker is Closed with failureCount 0 although no call was started
\* after the opening.
C24_Witness ==
  /\ openedAt >= 0
  /\ now >= openedAt + resetTimeout
  /\ resetTimers = << >>
  /\ ~circuitBreakerOpen
  /\ circuitBreakerFailures = 0
  /\ providerCalls = maxFailures

\* What the log of the ledger holds, in order: "ok", "failed", "rejected", "reset".
LogEvents == [i \in 1..Len(ledger.log) |-> ledger.log[i].e]

\* The failures at the end of a history, back to the last success or reset.
RECURSIVE TrailingFailures(_)
TrailingFailures(events) ==
  IF events = << >> THEN 0
  ELSE LET front == SubSeq(events, 1, Len(events) - 1)
           last == events[Len(events)]
       IN IF last = "failed" THEN 1 + TrailingFailures(front)
          ELSE IF last = "rejected" THEN TrailingFailures(front)
          ELSE 0

\* A step in which a provider call of the given outcome settles.
Settles(e) ==
  /\ Len(ledger'.log) = Len(ledger.log) + 1
  /\ ledger'.log[Len(ledger'.log)].e = e

\* C25: a provider call that succeeds while the breaker is Closed sets
\* failureCount to 0; failureCount is the number of failures since the last
\* success or reset; and after two failures, one success and two more failures
\* the breaker is Closed.
C25_SuccessResetsCount ==
  /\ [][ (Settles("ok") /\ ~circuitBreakerOpen) => circuitBreakerFailures' = 0 ]_vars
  /\ [](circuitBreakerFailures = TrailingFailures(LogEvents))
  /\ [](LogEvents = <<"failed", "failed", "ok", "failed", "failed">>
         => ~circuitBreakerOpen)

\* C25 witness: two failures, one success and two more failures have happened;
\* the breaker is Closed and failureCount is 2.
C25_Witness ==
  /\ LogEvents = <<"failed", "failed", "ok", "failed", "failed">>
  /\ ~circuitBreakerOpen
  /\ circuitBreakerFailures = 2

\* C26: a Closed breaker has failureCount below the threshold; the breaker goes
\* from Closed to Open in exactly the steps in which a call fails and brings
\* failureCount to the threshold; and when it opens, the history holds at least
\* 3 failures since the last success or reset.
C26_OpensAtThreshold ==
  /\ [](~circuitBreakerOpen => circuitBreakerFailures < maxFailures)
  /\ [][ (~circuitBreakerOpen /\ circuitBreakerOpen')
           <=> (~circuitBreakerOpen /\ Settles("failed")
                  /\ circuitBreakerFailures' = maxFailures) ]_vars
  /\ [][ (~circuitBreakerOpen /\ circuitBreakerOpen')
           => TrailingFailures(LogEvents)' >= maxFailures ]_vars

\* C26 witness: the third failure in a row after a success has just opened the
\* breaker.
C26_Witness ==
  /\ LogEvents = <<"failed", "ok", "failed", "failed", "failed">>
  /\ circuitBreakerOpen
  /\ circuitBreakerFailures = maxFailures

\* C27: an admitted call settles with what the provider produced: when the
\* provider call fails, failureCount grows by one and the caller receives the
\* provider's error; when it succeeds, the caller receives the provider's
\* payload; the error of the gate is received by rejected queries only.
C27_ProviderOutcomeDelivered ==
  /\ [][ Settles("failed")
           => /\ circuitBreakerFailures' = circuitBreakerFailures + 1
              /\ ledger'.last.provider \in LLMErrors
              /\ ledger'.last.got = ledger'.last.provider ]_vars
  /\ [][ Settles("ok")
           => /\ ledger'.last.provider \in LLMPayloads
              /\ ledger'.last.got = ledger'.last.provider ]_vars
  /\ [][ (Settles("ok") \/ Settles("failed") \/ Settles("rejected"))
           => (ledger'.last.got = CircuitOpenError <=> Settles("rejected")) ]_vars

\* C27 witness: after a success and a failure, a second call has failed with the
\* provider's error "provider unavailable" and its caller has received that error.
C27_Witness ==
  /\ LogEvents = <<"ok", "failed", "failed">>
  /\ ledger.last = [provider |-> "provider unavailable", got |-> "provider unavailable"]
  /\ circuitBreakerFailures = 2

\* The callers that had a call fail.
FailedCallers ==
  {ledger.log[i].caller : i \in {j \in 1..Len(ledger.log) : ledger.log[j].e = "failed"}}

\* C28: the callers of one client share its failure accounting: failureCount is
\* the number of failures since the last success or reset whoever the callers
\* of those calls were, the breaker is Open whenever the last three settled calls
\* of all callers together failed and no reset followed, and a query issued
\* while the breaker is Open is rejected whoever issues it.
C28_SharedAccounting ==
  /\ [](circuitBreakerFailures = TrailingFailures(LogEvents))
  /\ [](TrailingFailures(LogEvents) >= maxFailures => circuitBreakerOpen)
  /\ [][ (QueryIssued /\ circuitBreakerOpen)
           => (Settles("rejected") /\ queued' = queued) ]_vars

\* C28 witness: calls of A failed, the breaker is Open, and a query of B, none of
\* whose calls failed, has been rejected.
C28_Witness ==
  /\ circuitBreakerOpen
  /\ FailedCallers = {"A"}
  /\ ledger.log[Len(ledger.log)].e = "rejected"
  /\ ledger.log[Len(ledger.log)].caller = "B"

\* C30: the provider is not invoked while the breaker is Open: no step in which
\* a provider call starts is taken from a state where the breaker is Open.
C30_NoCallWhileOpen ==
  [][ providerCalls' = providerCalls + 1 => ~circuitBreakerOpen ]_vars

\* C31: an Open period lasts the full cooldown: the breaker is set back to Closed
\* only when 60 s have elapsed since it last went from Closed to Open, and at
\* most one reset timer is pending at any time.
C31_FullCooldown ==
  /\ [](Len(resetTimers) <= 1)
  /\ [][ (circuitBreakerOpen /\ ~circuitBreakerOpen')
           => now >= openedAt + resetTimeout ]_vars

\* C32: an Open breaker has failureCount at or above the threshold.
C32_OpenHasCount == circuitBreakerOpen => circuitBreakerFailures >= maxFailures

\* C33: failureCount stays between 0 and the threshold.
C33_CountWithinThreshold ==
  circuitBreakerFailures >= 0 /\ circuitBreakerFailures <= maxFailures

(* ---------------- claims on the rca:analyze handler ---------------- *)

\* The handler has left the await of Promise.allSettled.
PastJoin == pc \in {"commit", "done"} \/ (pc = "failed" /\ launchedAt >= 0)

\* The spec's SourceOutcome of a branch, read off the handler's state: a rejected
\* entry is Failed, a fulfilled entry with a payload is Success, the null the
\* k8sgpt .catch yields after its warning is Failed, any other null is Skipped.
Outcome(k) ==
  CASE result[k].status = "pending" -> "Unresolved"
    [] result[k].status = "rejected" -> "Failed"
    [] result[k].status = "fulfilled" /\ result[k].value # NULL -> "Success"
    [] OTHER -> IF k = "k8sgpt" /\ warnings # {} THEN "Failed" ELSE "Skipped"

\* The request or the configuration switches source k off.
Disabled(k) == (k = "logs" /\ ~includeLogs) \/ (k = "k8sgpt" /\ ~k8sgptClient)

\* Factors and weight that generateRCA derives from the log outcome.
LogFactors ==
  UNION { {"Found " \o ToString(l.errorCount) \o " error logs"} \cup Range(l.patterns)
          : l \in LogAnomalies }
NoLogFactor(r) ==
  /\ Range(r.factors) \cap LogFactors = {}
  /\ r.confidence \in {0, 20, 30, 50}
  /\ r.evidence.logSamples = << >>

\* Factors and weight that generateRCA derives from the k8sgpt outcome.
AiFactors ==
  UNION { {a.problems[i].description : i \in 1..Len(a.problems)} : a \in K8sgptAnalyses }
NoAiFactor(r) ==
  /\ Range(r.factors) \cap AiFactors = {}
  /\ r.confidence \in {0, 20, 25, 45}
  /\ r.evidence.k8sgptDetails = NULL

\* C3: when the Kubernetes branch ends Failed the run aborts with a fatal error:
\* generateRCA is never called, nothing is committed to Git and no output is set,
\* whatever the log and k8sgpt branches yield.
C3_K8sFailureAborts ==
  result["k8s"].status = "rejected"
    => /\ generateCalls = 0
       /\ rcaResult = NoResult
       /\ gitCommit = NoCommit
       /\ DOMAIN outputs = {}
       /\ pc \in {"join", "failed"}
       /\ pc = "failed" => error # NoError

\* C3 witness: the run was aborted on a Kubernetes timeout although the log and
\* the k8sgpt branch both succeeded.
C3_Witness ==
  /\ pc = "failed"
  /\ result["k8s"].reason = "Kubernetes API timeout"
  /\ Outcome("logs") = "Success"
  /\ Outcome("k8sgpt") = "Success"

\* C4: when the log branch times out and the Kubernetes branch succeeds, the run
\* produces a result without log-derived factors and a warning is recorded for
\* the failed log branch.
C4_LogTimeoutTolerated ==
  (PastJoin /\ result["k8s"].status = "fulfilled"
            /\ result["logs"].reason = "VictoriaLogs timeout")
    => /\ rcaResult # NoResult
       /\ NoLogFactor(rcaResult)
       /\ \E w \in warnings : w.error = "VictoriaLogs timeout"

\* C5: the handler passes the join only when all three branches are settled.
C5_SettleAll == PastJoin => \A k \in Sources : result[k].status # "pending"

\* C5 witness: the Kubernetes provider failed before its 10 s deadline, and the
\* handler still waited for the log branch's 15 s timeout and the k8sgpt answer.
C5_Witness ==
  /\ pc = "failed"
  /\ result["k8s"].reason = "Kubernetes API error"
  /\ result["logs"].reason = "VictoriaLogs timeout"
  /\ Outcome("k8sgpt") = "Success"

\* C6: a disabled source is Skipped and its provider is never invoked; an enabled
\* source is invoked once and, once settled, is Success or Failed; a timeout or a
\* provider exception that settles a branch makes it Failed; a settled branch never
\* changes; no branch is unresolved once the handler has passed the join.
C6_OneOutcomePerSource ==
  /\ [](\A k \in Sources :
          /\ Disabled(k) => (calls[k] = 0 /\ remote[k] = "none")
          /\ (Disabled(k) /\ launchedAt >= 0) => Outcome(k) = "Skipped"
          /\ ~Disabled(k) => (calls[k] <= 1 /\ Outcome(k) # "Skipped")
          /\ PastJoin => Outcome(k) # "Unresolved")
  /\ [][\A k \in Sources :
          /\ result[k].status # "pending" => result'[k] = result[k]
          /\ (result[k].status = "pending" /\ timer[k] = "armed" /\ timer'[k] = "fired")
               => Outcome(k)' = "Failed"
          /\ (result[k].status = "pending" /\ remote[k] = "pending"
                /\ remote'[k] = "rejected")
               => Outcome(k)' = "Failed"]_vars

\* C6 witness: a finished run with the logs switched off, the Kubernetes branch
\* successful and the k8sgpt branch timed out.
C6_Witness ==
  /\ pc = "done"
  /\ Outcome("k8s") = "Success"
  /\ Outcome("logs") = "Skipped"
  /\ Outcome("k8sgpt") = "Failed"
  /\ \E w \in warnings : w.error = "k8sgpt timeout"

\* C7: when entity resolution fails the run aborts with a fatal error and no
\* provider is called and no timer armed.
C7_EntityFailureStartsNothing ==
  error = "RCA analysis failed: Entity not found"
    => /\ pc = "failed"
       /\ \A k \in Sources : calls[k] = 0 /\ remote[k] = "none" /\ timer[k] = "none"
       /\ generateCalls = 0

\* C7 witness: entity resolution failed in a run with all three sources enabled.
C7_Witness ==
  /\ error = "RCA analysis failed: Entity not found"
  /\ includeLogs
  /\ k8sgptClient

\* C8: after a failure of the k8sgpt branch (provider error, circuit-open error or
\* timeout) with the Kubernetes branch successful, the handler produces a result
\* without k8sgpt-derived factors, and the only error the run can still end with
\* is the Git commit's.
C8_AiFailureContained ==
  /\ result["k8sgpt"].status # "rejected"
  /\ (PastJoin /\ result["k8s"].status = "fulfilled" /\ warnings # {})
       => /\ rcaResult # NoResult
          /\ NoAiFactor(rcaResult)
          /\ error \in {NoError, "RCA analysis failed: Git commit failed"}
          /\ pc = "done" => (error = NoError /\ outputs.evidence.k8sgptDetails = NULL)

\* C8 witness: a finished run whose k8sgpt call was rejected by an open circuit.
C8_Witness ==
  /\ pc = "done"
  /\ \E w \in warnings : w.error = "Circuit breaker open - LLM service unavailable"
  /\ error = NoError

\* C9: every invocation of the k8sgpt provider by the run passes the breaker gate
\* of the ResilientLLMClient, so the run never invokes the provider while the
\* breaker is Open.
C9_AiOnlyThroughResilientCaller ==
  [][ calls'["k8sgpt"] > calls["k8sgpt"] => ~circuitBreakerOpen ]_vars

\* The last value the clock of a run takes.
LastRunClock == (MaxRunTime \div RunStep) * RunStep

\* The run has ended, with its outputs or with an error.
Ended == pc \in {"done", "failed"}

\* C34: a branch that is still unsettled at its deadline has its timer due, and
\* the clock does not advance before that timer has settled it; the run leaves
\* the join only with every branch settled; and every run whose branches were
\* launched ends, with its outputs or with an error, also when no provider ever
\* answers (for every launch whose longest deadline lies within the clock of the
\* model).
C34_RunTerminates ==
  /\ [](\A k \in Sources :
          (result[k].status = "pending" /\ launchedAt >= 0
             /\ now >= launchedAt + Deadline(k)) => TimerDue(k))
  /\ [][ now' > now
          => \A k \in Sources :
               (launchedAt >= 0 /\ now >= launchedAt + Deadline(k))
                 => result[k].status # "pending" ]_vars
  /\ (launchedAt >= 0 /\ launchedAt + Deadline("k8sgpt") <= LastRunClock) ~> Ended
  /\ (pc = "fetchEntity") ~> (pc # "fetchEntity")

\* C34 witness: all three providers were called and none has answered; the three
\* timers have settled the branches and the run has ended with the fatal error
\* of the Kubernetes timeout.
C34_Witness ==
  /\ \A k \in Sources : calls[k] = 1 /\ remote[k] = "pending" /\ timer[k] = "fired"
  /\ pc = "failed"
  /\ error = "RCA analysis failed: Failed to fetch Kubernetes context: Error: Kubernetes API timeout"
  /\ now = launchedAt + Deadline("k8sgpt")

\* C35: a step of one branch (its provider answers or its timer fires) leaves
\* the entries of the other branches as they are; when the provider of a branch
\* that has timed out answers later, no entry, no warning, no result, no output
\* and no audit record changes; and the result produced is the one generateRCA
\* gives for the recorded entries.
C35_BranchesIndependent ==
  /\ [][ \A k \in Sources :
           (pc = "join" /\ (timer'[k] # timer[k] \/ remote'[k] # remote[k]))
             => \A j \in Sources \ {k} : result'[j] = result[j] ]_vars
  /\ [][ \A k \in Sources :
           (timer[k] = "fired" /\ remote[k] = "pending" /\ remote'[k] # "pending")
             => /\ result' = result
                /\ warnings' = warnings
                /\ rcaResult' = rcaResult
                /\ outputs' = outputs
                /\ audit' = audit ]_vars
  /\ [](rcaResult # NoResult
         => rcaResult = generateRCA(result["k8s"].value, ValueOrNull(result["logs"]),
                                    ValueOrNull(result["k8sgpt"])))

\* C35 witness: the k8sgpt branch timed out and its provider answered afterwards;
\* the run has ended with the Kubernetes and the log branch successful and the
\* k8sgpt entry still the null of the timeout.
C35_Witness ==
  /\ pc = "done"
  /\ timer["k8sgpt"] = "fired"
  /\ remote["k8sgpt"] = "resolved"
  /\ result["k8sgpt"] = Fulfilled(NULL)
  /\ \E w \in warnings : w.error = "k8sgpt timeout"
  /\ Outcome("k8s") = "Success"
  /\ Outcome("logs") = "Success"
  /\ outputs.evidence.k8sgptDetails = NULL

(* ---------------- claims on generateRCA ---------------- *)

\* The inputs of the generateRCA call, as the handler passes them.
k8sInput == result["k8s"].value
logInput == ValueOrNull(result["logs"])
aiInput == ValueOrNull(result["k8sgpt"])

\* The conditions of the three evidence rules, read off the inputs.
AiHasProblem == aiInput # NULL /\ Len(aiInput.problems) >= 1
LogHasErrors == logInput # NULL /\ logInput.errorCount > 0
K8sHasCritical ==
  \E i \in 1..Len(k8sInput.k8sEvents) :
     k8sInput.k8sEvents[i].type = "Warning" \/ k8sInput.k8sEvents[i].reason = "Failed"

Weight(triggered, w) == IF triggered THEN w ELSE 0

\* C13: every result of generateRCA has 0 <= confidence <= 100.
C13_ConfidenceInRange ==
  rcaResult # NoResult => (rcaResult.confidence >= 0 /\ rcaResult.confidence <= 100)

\* C13 witness: a result built from several problems, several error logs and
\* several critical events.
C13_Witness ==
  /\ rcaResult # NoResult
  /\ AiHasProblem /\ Len(aiInput.problems) > 1
  /\ LogHasErrors /\ logInput.errorCount > 1
  /\ Len(criticalEvents(k8sInput)) > 1

\* C14: confidence = min(100, 30 if the analysis has a problem + 25 if the log
\* outcome has errorCount > 0 + 20 if there is a Warning or Failed event), each
\* weight once and each rule by itself.
C14_ConfidenceIsClampedSum ==
  rcaResult # NoResult
    => rcaResult.confidence =
         Min(100, Weight(AiHasProblem, 30) + Weight(LogHasErrors, 25)
                    + Weight(K8sHasCritical, 20))

\* C14 witness: two problems and five error logs without any critical event give
\* 30 + 25.
C14_Witness ==
  /\ rcaResult # NoResult
  /\ rcaResult.confidence = 55
  /\ Len(aiInput.problems) = 2
  /\ logInput.errorCount = 5

\* C15: when no rule triggers the result has confidence 0, no factor and the
\* healthy-system summary.
C15_NothingTriggered ==
  (rcaResult # NoResult /\ ~AiHasProblem /\ ~LogHasErrors /\ ~K8sHasCritical)
    => /\ rcaResult.confidence = 0
       /\ rcaResult.factors = << >>
       /\ rcaResult.summary = "No significant issues detected. System appears healthy."

\* C15 witness: no rule triggered although all three sources answered: an analysis
\* without problems, a log outcome with patterns but no error, only Normal events.
C15_Witness ==
  /\ rcaResult # NoResult
  /\ ~AiHasProblem /\ aiInput # NULL
  /\ ~LogHasErrors /\ logInput # NULL /\ logInput.patterns # << >>
  /\ ~K8sHasCritical /\ k8sInput.k8sEvents # << >>

\* C16: the worked example. One problem "CrashLoopBackOff", errorCount 5 with
\* patterns <<"timeout (5x)">> and one Warning event give the four factors in
\* order, confidence 75 and the latency/dependency recommendation among the actions.
C16_WorkedExample ==
  ( /\ rcaResult # NoResult
    /\ aiInput # NULL /\ aiInput.problems = <<[description |-> "CrashLoopBackOff"]>>
    /\ logInput # NULL /\ logInput.errorCount = 5
    /\ logInput.patterns = <<"timeout (5x)">>
    /\ Len(k8sInput.k8sEvents) = 1 /\ k8sInput.k8sEvents[1].type = "Warning" )
    => /\ rcaResult.factors = <<"CrashLoopBackOff", "Found 5 error logs", "timeout (5x)",
                                "1 critical Kubernetes events">>
       /\ rcaResult.confidence = 75
       /\ Includes(rcaResult.actions, "Investigate network latency or slow dependencies")

\* The log patterns hold p as an element.
HasPattern(p) == logInput # NULL /\ p \in Range(logInput.patterns)

C37_FactorsInFixedOrder ==
  rcaResult # NoResult
    => rcaResult.factors =
         (IF AiHasProblem
            THEN [i \in 1..Len(aiInput.problems) |-> aiInput.problems[i].description]
            ELSE << >>)
         \o (IF LogHasErrors
               THEN <<"Found " \o ToString(logInput.errorCount) \o " error logs">>
                      \o logInput.patterns
               ELSE << >>)
         \o (IF K8sHasCritical
               THEN <<ToString(Cardinality({i \in 1..Len(k8sInput.k8sEvents) :
                                 \/ k8sInput.k8sEvents[i].type = "Warning"
                                 \/ k8sInput.k8sEvents[i].reason = "Failed"}))
                        \o " critical Kubernetes events">>
               ELSE << >>)

\* C37 witness: two problems, five error logs with two patterns and two critical
\* events gave the six factors in the fixed order.
C37_Witness ==
  /\ rcaResult # NoResult
  /\ rcaResult.factors =
       <<"ImagePullBackOff", "CrashLoopBackOff", "Found 5 error logs",
         "OOMKilled (3x)", "timeout (2x)", "2 critical Kubernetes events">>

\* The positions of the Warning or Failed events of the Kubernetes context.
CriticalAt ==
  {i \in 1..Len(k8sInput.k8sEvents) :
     k8sInput.k8sEvents[i].type = "Warning" \/ k8sInput.k8sEvents[i].reason = "Failed"}

\* C38: the evidence holds at most 10 Kubernetes events and at most 5 log
\* entries: the n-th event of the evidence is the n-th Warning or Failed event
\* of the input, for the first 10 of them, and the log samples are the first 5
\* entries of the log outcome, none when there is no log outcome.
C38_EvidenceBounded ==
  rcaResult # NoResult
    => LET ev == rcaResult.evidence
           Nth(n) == CHOOSE i \in CriticalAt :
                       Cardinality({j \in CriticalAt : j < i}) = n - 1
       IN /\ Len(ev.k8sEvents) = Min(10, Cardinality(CriticalAt))
          /\ \A n \in 1..Len(ev.k8sEvents) : ev.k8sEvents[n] = k8sInput.k8sEvents[Nth(n)]
          /\ IF logInput = NULL
               THEN ev.logSamples = << >>
               ELSE /\ Len(ev.logSamples) = Min(5, Len(logInput.entries))
                    /\ \A n \in 1..Len(ev.logSamples) :
                         ev.logSamples[n] = logInput.entries[n]

\* C38 witness: the input had more than 10 critical events and 6 log entries; the
\* evidence holds 10 events, the ninth being the Warning at position 13 of the
\* input, and the first 5 log entries.
C38_Witness ==
  /\ rcaResult # NoResult
  /\ Cardinality(CriticalAt) > 10
  /\ Len(rcaResult.evidence.k8sEvents) = 10
  /\ rcaResult.evidence.k8sEvents[9] = [type |-> "Warning", reason |-> "BackOff13"]
  /\ logInput # NULL
  /\ Len(logInput.entries) = 6
  /\ rcaResult.evidence.logSamples = <<"e1", "e2", "e3", "e4", "e5">>

(* ---------------- claims on the end of a run ---------------- *)

\* The six keys of the action's output schema.
OutputKeys ==
  {"rcaSummary", "confidenceScore", "contributingFactors", "recommendedActions",
   "evidence", "gitCommit"}

\* The number of RCA_FAILED records, one per pass through the catch block.
FailuresRaised == Cardinality({i \in 1..Len(audit) : audit[i].event = "RCA_FAILED"})

\* C19: a run ends either with all six outputs set and no error, or with exactly
\* one error and no output; at no point of a run is an error raised next to an
\* output, and no failed stage leaves some of the outputs set.
C19_CompleteOrError ==
  /\ pc = "done" => (DOMAIN outputs = OutputKeys /\ error = NoError /\ FailuresRaised = 0)
  /\ pc = "failed" => (DOMAIN outputs = {} /\ error # NoError /\ FailuresRaised = 1)
  /\ pc \notin {"done", "failed"}
       => (DOMAIN outputs = {} /\ error = NoError /\ FailuresRaised = 0)

\* C19 witness: the run failed at its last stage, the Git commit, after generateRCA
\* had returned a result built from all three sources.
C19_Witness ==
  /\ pc = "failed"
  /\ error = "RCA analysis failed: Git commit failed"
  /\ rcaResult # NoResult
  /\ \A k \in Sources : Outcome(k) = "Success"

\* The audit records of the given event.
AuditRecords(event) == {i \in 1..Len(audit) : audit[i].event = event}

HasEnvSuffix(ns) ==
  /\ Len(ns) >= 2
  /\ ns[Len(ns) - 1] = "-"
  /\ ns[Len(ns)] \in {"prod", "staging", "dev", "test"}

\* The namespace without that ending, and the group of that team.
TeamOf(ns) == IF HasEnvSuffix(ns) THEN SubSeq(ns, 1, Len(ns) - 2) ELSE ns
OwnerGroup(ns) == <<"group:default/">> \o TeamOf(ns)

\* The policy has decided a Kubernetes permission on an entity that was found and
\* has a namespace annotation.
NamespacedDecision ==
  /\ decision # "none"
  /\ isKubernetesPermission(request.permission)
  /\ request.catalog.kind = "entity"
  /\ extractNamespace(request.catalog) # << >>

\* C20: for a Kubernetes permission on an entity with a namespace annotation, a
\* shared namespace is allowed for every user, and any other namespace is
\* allowed if and only if the user's groups hold group:default/<team>, <team>
\* being the namespace without a trailing -prod, -staging, -dev or -test.
C20_OwnerGroupDecides ==
  NamespacedDecision
    => IF extractNamespace(request.catalog) \in Range(policyConfig.sharedNamespaces)
         THEN decision = "ALLOW"
         ELSE (decision = "ALLOW")
                <=> OwnerGroup(extractNamespace(request.catalog))
                      \in Range(getUserGroups(request))

\* C20 witness: a member of group:default/platform-engineering (and of no other
\* group) was allowed the namespace platform-engineering-prod.
C20_Witness ==
  /\ NamespacedDecision
  /\ decision = "ALLOW"
  /\ extractNamespace(request.catalog) = Hyphenated(PlatformEngineering, <<"prod">>)
  /\ request.identity.refs = <<UserRef, GroupRef(PlatformEngineering)>>

\* The identity lookup or the catalog lookup failed, no entity was found, or the
\* evaluation threw.
LookupFailed ==
  \/ ~request.identity.ok
  \/ request.catalog.kind \in {"noRef", "error", "undefined", "malformed"}

\* C22: the policy fails closed: when it has decided a Kubernetes permission and
\* the identity lookup or the catalog lookup failed, or the entity was not found,
\* or the evaluation threw, the decision is DENY.
C22_FailsClosed ==
  (decision # "none" /\ isKubernetesPermission(request.permission) /\ LookupFailed)
    => decision = "DENY"

Logged(action) == \E i \in 1..Len(policyLog) : policyLog[i].action = action

\* C23: with audit logging enabled, a DENY for a Kubernetes permission comes with
\* a NAMESPACE_ACCESS_DENIED record, and an ALLOW for an entity that has a
\* namespace with a SHARED_NAMESPACE_ACCESS or a NAMESPACE_ACCESS_GRANTED record.
C23_DecisionsAudited ==
  (decision # "none" /\ isKubernetesPermission(request.permission)
     /\ policyConfig.enableAuditLogging)
    => /\ decision = "DENY" => Logged("NAMESPACE_ACCESS_DENIED")
       /\ (decision = "ALLOW" /\ NamespacedDecision)
            => Logged("SHARED_NAMESPACE_ACCESS") \/ Logged("NAMESPACE_ACCESS_GRANTED")

(* ---------------- claims on ZitadelGroupSyncResolver ---------------- *)

Issued == backstageToken # NoToken
HasRole(role) == claims.roles.kind = "object" /\ Includes(claims.roles.keys, role)
Occurrences(seq, x) == Cardinality({i \in 1..Len(seq) : seq[i] = x})

\* C21: with the default configuration the token issued for a role team-a-admin
\* carries group:default/team-a, for team-b-developer group:default/team-b, for
\* platform-engineering-owner group:default/platform-engineering, and a group
\* named by several roles of the token is carried exactly once.
C21_RolesMapToTeamGroups ==
  Issued =>
    /\ HasRole(RoleOf(TeamA, "admin")) =>
         Occurrences(backstageToken.ent, GroupRef(TeamA)) = 1
    /\ HasRole(RoleOf(TeamB, "developer")) =>
         Occurrences(backstageToken.ent, GroupRef(TeamB)) = 1
    /\ HasRole(RoleOf(PlatformEngineering, "owner")) =>
         Occurrences(backstageToken.ent, GroupRef(PlatformEngineering)) = 1
    /\ \A g \in Range(backstageToken.ent) : Occurrences(backstageToken.ent, g) = 1

\* C39: a token is issued only for claims whose issuer is one of the expected
\* issuers; for a missing issuer or any other issuer resolve throws and issues
\* no token.
C39_OnlyExpectedIssuers ==
  /\ Issued => Includes(expectedIssuers, claims.iss)
  /\ resolveError # "" => ~Issued
  /\ (Issued \/ resolveError # "")
       => (resolveError # "" <=> ~Includes(expectedIssuers, claims.iss))

\* The team T of the user's role team-T-<suffix> and of the namespace
\* team-T-<env> of the request.
RoleTeam ==
  CHOOSE t \in TeamWords :
    \E sfx \in Suffixes : claims.roles.keys = <<RoleOf(TeamOfWord(t), sfx)>>
NamespaceTeam ==
  CHOOSE t \in TeamWords :
    \E env \in TeamEnvironments :
      extractNamespace(request.catalog) = Hyphenated(TeamOfWord(t), <<env>>)

\* C40: the policy allows the request of a user whose only role is
\* team-T-<suffix> on the namespaces team-T-prod, team-T-staging and team-T-dev,
\* and denies it on the namespaces of every other team.
C40_SyncAndPolicyAgree ==
  decision # "none" => (decision = "ALLOW" <=> NamespaceTeam = RoleTeam)

(* ---------------- claims on VictoriaLogsClient ---------------- *)

\* C29: fetchLogAnomalies throws nothing: every call returns a result, and when
\* the log query failed or timed out the result has no entries, errorCount 0,
\* warningCount 0 and no patterns.
C29_NoErrorPropagated ==
  logReturn # NoRequest
    => /\ ~logReturn.threw
       /\ logCall.http.threw
            => /\ logReturn.value.entries = << >>
               /\ logReturn.value.errorCount = 0
               /\ logReturn.value.warningCount = 0
               /\ logReturn.value.patterns = << >>

====
